---- MODULE Spec2Model ----
(***************************************************************************)
(* A model of the HTTP request executor of cursor-deeplink                 *)
(* (src/src/httpRequestExecutor.ts).                                       *)
(*                                                                         *)
(* Text is modelled as a sequence of one-character strings, so that the    *)
(* regular expressions and string scans of the source are computed, not    *)
(* assumed.  Positions are 1-based; 0 means "not found".                   *)
(***************************************************************************)
EXTENDS Integers, Sequences, FiniteSets, TLC

(***************************************************************************)
(* JavaScript string primitives                                            *)
(***************************************************************************)
Digits == {"0", "1", "2", "3", "4", "5", "6", "7", "8", "9"}

Lowers == {"a", "b", "c", "d", "e", "f", "g", "h", "i", "j", "k", "l", "m",
           "n", "o", "p", "q", "r", "s", "t", "u", "v", "w", "x", "y", "z"}

Uppers == {"A", "B", "C", "D", "E", "F", "G", "H", "I", "J", "K", "L", "M",
           "N", "O", "P", "Q", "R", "S", "T", "U", "V", "W", "X", "Y", "Z"}

\* \s of a JavaScript regular expression, and the characters trim() removes
Spaces == {" ", "\t", "\n", "\r", "\f"}

\* \w of a JavaScript regular expression
WordChars == Digits \cup Lowers \cup Uppers \cup {"_"}

Min(S) == CHOOSE x \in S : \A y \in S : x <= y

Max(S) == CHOOSE x \in S : \A y \in S : x >= y

\* String.prototype.substring on 1-based inclusive positions, clipped to s
Sub(s, i, j) ==
    LET a == IF i < 1 THEN 1 ELSE i
        b == IF j > Len(s) THEN Len(s) ELSE j
    IN  IF a > b THEN << >> ELSE SubSeq(s, a, b)

\* the text of s from position i to its end
From(s, i) == Sub(s, i, Len(s))

\* p occurs in s at position i
MatchAt(s, p, i) == /\ i >= 1
                    /\ i + Len(p) - 1 <= Len(s)
                    /\ \A k \in 1..Len(p) : s[i + k - 1] = p[k]

\* String.prototype.indexOf: the first position of p in s at or after from
IndexFrom(s, p, from) ==
    LET hits == {i \in from..(Len(s) - Len(p) + 1) : MatchAt(s, p, i)}
    IN  IF hits = {} THEN 0 ELSE Min(hits)

IndexOf(s, p) == IndexFrom(s, p, 1)

\* String.prototype.includes
Includes(s, p) == IndexOf(s, p) > 0

\* String.prototype.startsWith / endsWith
StartsWith(s, p) == MatchAt(s, p, 1)

EndsWith(s, p) == Len(p) <= Len(s) /\ MatchAt(s, p, Len(s) - Len(p) + 1)

\* String.prototype.trim
Trim(s) ==
    LET keep == {i \in 1..Len(s) : s[i] \notin Spaces}
    IN  IF keep = {} THEN << >> ELSE SubSeq(s, Min(keep), Max(keep))

LowerOf(c) ==
    IF c \in Uppers
    THEN CHOOSE l \in Lowers :
           \E k \in 1..26 :
              /\ <<"A","B","C","D","E","F","G","H","I","J","K","L","M",
                   "N","O","P","Q","R","S","T","U","V","W","X","Y","Z">>[k] = c
              /\ <<"a","b","c","d","e","f","g","h","i","j","k","l","m",
                   "n","o","p","q","r","s","t","u","v","w","x","y","z">>[k] = l
    ELSE c

UpperOf(c) ==
    IF c \in Lowers
    THEN CHOOSE u \in Uppers : LowerOf(u) = c
    ELSE c

\* String.prototype.toLowerCase / toUpperCase
ToLower(s) == [i \in 1..Len(s) |-> LowerOf(s[i])]

ToUpper(s) == [i \in 1..Len(s) |-> UpperOf(s[i])]

\* the first position at or after i whose character is in the set cs
\* (Len(s) + 1 when there is none): the end of a greedy run of [^cs]
FirstIn(s, cs, i) ==
    LET hits == {k \in i..Len(s) : s[k] \in cs}
    IN  IF hits = {} THEN Len(s) + 1 ELSE Min(hits)

\* the first position at or after i whose character is not in cs
FirstNotIn(s, cs, i) ==
    LET hits == {k \in i..Len(s) : s[k] \notin cs}
    IN  IF hits = {} THEN Len(s) + 1 ELSE Min(hits)

\* parseInt(d, 10) of a run of decimal digits
RECURSIVE ParseInt(_)
ParseInt(d) ==
    IF d = << >> THEN 0
    ELSE 10 * ParseInt(SubSeq(d, 1, Len(d) - 1))
         + (CHOOSE n \in 0..9 :
              <<"0","1","2","3","4","5","6","7","8","9">>[n + 1] = d[Len(d)])

\* Array.prototype.join
RECURSIVE Join(_, _)
Join(parts, sep) ==
    IF parts = << >> THEN << >>
    ELSE IF Len(parts) = 1 THEN parts[1]
    ELSE parts[1] \o sep \o Join(Tail(parts), sep)

\* the concatenation of a sequence of texts
Concat(parts) == Join(parts, << >>)

(***************************************************************************)
(* Literals of the source                                                  *)
(***************************************************************************)
Quotes == {"'", "\""}

S_curl == <<"c", "u", "r", "l">>

S_http == <<"h", "t", "t", "p">>

S_sep == <<":", "/", "/">>

S_GET == <<"G", "E", "T">>

\* a value that no text equals: JavaScript's null / undefined
Null == <<"<null>">>

(***************************************************************************)
(* JSON.parse, for the texts the model feeds it: objects, arrays, strings  *)
(* without escapes, unsigned integers and true / false / null, with        *)
(* optional white space.  A value is [t, v]; an object's v is a sequence   *)
(* of <<key, value>> members in source order.                              *)
(***************************************************************************)
JsonWs == {" ", "\t", "\n", "\r"}

SkipWs(s, i) == FirstNotIn(s, JsonWs, i)

JFail == [ok |-> FALSE, val |-> [t |-> "null", v |-> << >>], next |-> 0]

JOk(t, v, n) == [ok |-> TRUE, val |-> [t |-> t, v |-> v], next |-> n]

\* a string token starting at the quote at position i
JsonString(s, i) ==
    LET close == FirstIn(s, {"\"", "\\", "\n", "\r"}, i + 1)
    IN  IF i <= Len(s) /\ s[i] = "\"" /\ close <= Len(s) /\ s[close] = "\""
        THEN JOk("str", Sub(s, i + 1, close - 1), close + 1)
        ELSE JFail

JsonWord(s, i, w, t) == IF MatchAt(s, w, i) THEN JOk(t, << >>, i + Len(w)) ELSE JFail

JsonNumber(s, i) ==
    LET e == FirstNotIn(s, Digits, i)
    IN  IF e > i /\ (s[i] # "0" \/ e = i + 1)
        THEN JOk("num", Sub(s, i, e - 1), e)
        ELSE JFail

RECURSIVE JsonValue(_, _), JsonMembers(_, _, _), JsonElements(_, _, _)
\* the members of an object after its "{" (i is past white space)
JsonMembers(s, i, acc) ==
    LET k == JsonString(s, i)
        c == SkipWs(s, k.next)
        v == JsonValue(s, SkipWs(s, c + 1))
        n == SkipWs(s, v.next)
    IN  IF ~k.ok \/ c > Len(s) \/ s[c] # ":" THEN JFail
        ELSE IF ~v.ok \/ n > Len(s) THEN JFail
        ELSE IF s[n] = "}" THEN JOk("obj", Append(acc, <<k.val.v, v.val>>), n + 1)
        ELSE IF s[n] = "," THEN JsonMembers(s, SkipWs(s, n + 1), Append(acc, <<k.val.v, v.val>>))
        ELSE JFail

\* the elements of an array after its "[" (i is past white space)
JsonElements(s, i, acc) ==
    LET v == JsonValue(s, i)
        n == SkipWs(s, v.next)
    IN  IF ~v.ok \/ n > Len(s) THEN JFail
        ELSE IF s[n] = "]" THEN JOk("arr", Append(acc, v.val), n + 1)
        ELSE IF s[n] = "," THEN JsonElements(s, SkipWs(s, n + 1), Append(acc, v.val))
        ELSE JFail

JsonValue(s, i) ==
    IF i > Len(s) THEN JFail
    ELSE IF s[i] = "\"" THEN JsonString(s, i)
    ELSE IF s[i] = "{" THEN
        LET j == SkipWs(s, i + 1)
        IN  IF j <= Len(s) /\ s[j] = "}" THEN JOk("obj", << >>, j + 1)
            ELSE JsonMembers(s, j, << >>)
    ELSE IF s[i] = "[" THEN
        LET j == SkipWs(s, i + 1)
        IN  IF j <= Len(s) /\ s[j] = "]" THEN JOk("arr", << >>, j + 1)
            ELSE JsonElements(s, j, << >>)
    ELSE IF s[i] \in Digits THEN JsonNumber(s, i)
    ELSE IF s[i] = "t" THEN JsonWord(s, i, <<"t", "r", "u", "e">>, "true")
    ELSE IF s[i] = "f" THEN JsonWord(s, i, <<"f", "a", "l", "s", "e">>, "false")
    ELSE IF s[i] = "n" THEN JsonWord(s, i, <<"n", "u", "l", "l">>, "null")
    ELSE JFail

\* JSON.parse(text): ok is FALSE where JSON.parse throws
\* the value v read from s is the whole text but for white space
JsonWhole(s, v) == IF v.ok /\ SkipWs(s, v.next) > Len(s) THEN v ELSE JFail

JsonParse(s) == JsonWhole(s, JsonValue(s, SkipWs(s, 1)))

\* parsed[name]: the last member of that name of an object, "undefined" for
\* every other value
JsonGet(val, name) ==
    LET hits == IF val.t = "obj"
                THEN {k \in 1..Len(val.v) : val.v[k][1] = name}
                ELSE {}
    IN  IF hits = {} THEN [t |-> "undefined", v |-> << >>] ELSE val.v[Max(hits)][2]

\* JavaScript truthiness of a parsed value
Truthy(val) ==
    CASE val.t \in {"undefined", "null", "false"} -> FALSE
      [] val.t = "str" -> val.v # << >>
      [] val.t = "num" -> val.v # <<"0">>
      [] OTHER -> TRUE

\* the subsequence of s at the positions in keep, in order
RECURSIVE Pick(_, _, _)
Pick(s, keep, i) ==
    IF i > Len(s) THEN << >>
    ELSE (IF i \in keep THEN <<s[i]>> ELSE << >>) \o Pick(s, keep, i + 1)

\* Object.entries of a parsed value: an object's own members (a repeated key
\* keeps its first place and its last value); no entries for the other values
\* the model feeds it (undefined, null, numbers, booleans)
ObjectEntries(val) ==
    IF val.t # "obj" THEN << >>
    ELSE LET first == {k \in 1..Len(val.v) :
                         \A j \in 1..(k - 1) : val.v[j][1] # val.v[k][1]}
             last(k) == Max({j \in 1..Len(val.v) : val.v[j][1] = val.v[k][1]})
             uniq == [k \in 1..Len(val.v) |-> <<val.v[k][1], val.v[last(k)][2]>>]
         IN  Pick(uniq, first, 1)

\* JSON.stringify(value) without indentation
RECURSIVE JsonStringify(_)
JsonStringify(val) ==
    CASE val.t = "str" -> <<"\"">> \o val.v \o <<"\"">>
      [] val.t = "num" -> val.v
      [] val.t = "true" -> <<"t", "r", "u", "e">>
      [] val.t = "false" -> <<"f", "a", "l", "s", "e">>
      [] val.t = "obj" ->
           LET es == ObjectEntries(val)
           IN  <<"{">> \o Join([k \in 1..Len(es) |->
                                  <<"\"">> \o es[k][1] \o <<"\"", ":">> \o JsonStringify(es[k][2])],
                               <<",">>) \o <<"}">>
      [] val.t = "arr" ->
           <<"[">> \o Join([k \in 1..Len(val.v) |-> JsonStringify(val.v[k])], <<",">>) \o <<"]">>
      [] OTHER -> <<"n", "u", "l", "l">>

\* String(value), as a template literal converts it
ToText(val) == IF val.t = "str" THEN val.v ELSE JsonStringify(val)

Str(text) == [t |-> "str", v |-> text]

Undefined == [t |-> "undefined", v |-> << >>]

(***************************************************************************)
(* parseCurlCommand                                                        *)
(***************************************************************************)
\* command.replace(/\s+/g, ' '): every run of white space becomes one space
CollapseSpaces(s) ==
    LET keep == {i \in 1..Len(s) : s[i] \notin Spaces \/ i = 1 \/ s[i - 1] \notin Spaces}
        one == [i \in 1..Len(s) |-> IF s[i] \in Spaces THEN " " ELSE s[i]]
    IN  Pick(one, keep, 1)

\* str.replace(/['"]/g, '') and the other removals of single characters
Remove(s, cs) == Pick(s, {i \in 1..Len(s) : s[i] \notin cs}, 1)

\* the end (exclusive) of https?:\/\/ matched case-insensitively at i, else 0
SchemeEnd(s, i) ==
    LET low == ToLower(Sub(s, i, i + 7))
    IN  IF MatchAt(low, S_http \o <<"s">> \o S_sep, 1) THEN i + 8
        ELSE IF MatchAt(low, S_http \o S_sep, 1) THEN i + 7
        ELSE 0

\* /['"]https?:\/\/[^'"]+['"]/i : [start, end] of the leftmost match, else <<0, 0>>
QuotedUrlMatch(s) ==
    LET ok(i) == /\ s[i] \in Quotes
                 /\ SchemeEnd(s, i + 1) > 0
                 /\ LET e == FirstIn(s, Quotes, SchemeEnd(s, i + 1))
                    IN  e > SchemeEnd(s, i + 1) /\ e <= Len(s)
        hits == {i \in 1..Len(s) : ok(i)}
    IN  IF hits = {} THEN <<0, 0>>
        ELSE <<Min(hits), FirstIn(s, Quotes, SchemeEnd(s, Min(hits) + 1))>>

\* /https?:\/\/[^\s"']+/i : [start, end] of the leftmost match, else <<0, 0>>
BareUrlMatch(s) ==
    LET stop(i) == FirstIn(s, Spaces \cup Quotes, SchemeEnd(s, i))
        ok(i) == SchemeEnd(s, i) > 0 /\ stop(i) > SchemeEnd(s, i)
        hits == {i \in 1..Len(s) : ok(i)}
    IN  IF hits = {} THEN <<0, 0>> ELSE <<Min(hits), stop(Min(hits)) - 1>>

\* the url of lines 80-92: the first pattern that matches, quotes removed
FirstUrl(command, q, b) ==
    IF q[1] > 0 THEN Remove(Sub(command, q[1], q[2]), Quotes)
    ELSE IF b[1] > 0 THEN Remove(Sub(command, b[1], b[2]), Quotes)
    ELSE Null

ExtractUrl(command) == FirstUrl(command, QuotedUrlMatch(command), BareUrlMatch(command))

\* /-X\s+(\w+)/i : the captured token of the leftmost match, else Null
MethodMatch(s) ==
    LET arg(i) == FirstNotIn(s, Spaces, i + 2)
        ok(i) == /\ i + 2 <= Len(s)
                 /\ s[i] = "-" /\ s[i + 1] \in {"X", "x"}
                 /\ s[i + 2] \in Spaces
                 /\ arg(i) <= Len(s) /\ s[arg(i)] \in WordChars
        hits == {i \in 1..Len(s) : ok(i)}
    IN  IF hits = {} THEN Null
        ELSE Sub(s, arg(Min(hits)), FirstNotIn(s, WordChars, arg(Min(hits))) - 1)

\* (?:\\.|(?!\1)[^\\])* from position p with opening quote q: the position
\* where the greedy run stops
RECURSIVE QuotedRun(_, _, _)
QuotedRun(s, p, q) ==
    IF p > Len(s) THEN p
    ELSE IF s[p] = "\\"
         THEN IF p + 1 <= Len(s) /\ s[p + 1] \notin {"\n", "\r"}
              THEN QuotedRun(s, p + 2, q)
              ELSE p
    ELSE IF s[p] # q THEN QuotedRun(s, p + 1, q)
    ELSE p

\* flag \s+ (["']) run \1 , the flag being one of flags (lower case), matched
\* case-insensitively at i: <<position of the opening quote, position of the
\* closing quote>>, else <<0, 0>>
QuotedArgAt(s, flags, i) ==
    LET fs == {f \in flags : MatchAt(ToLower(Sub(s, i, i + Len(f) - 1)), f, 1)}
        try(f) == LET a == i + Len(f)
                      o == FirstNotIn(s, Spaces, a)
                  IN  IF a <= Len(s) /\ s[a] \in Spaces /\ o <= Len(s) /\ s[o] \in Quotes
                      THEN LET c == QuotedRun(s, o + 1, s[o])
                           IN  IF c <= Len(s) /\ s[c] = s[o] THEN <<o, c>> ELSE <<0, 0>>
                      ELSE <<0, 0>>
        good == {f \in fs : try(f)[1] > 0}
    IN  IF good = {} THEN <<0, 0>> ELSE try(CHOOSE f \in good : TRUE)

\* the leftmost match of the quoted-argument pattern at or after from
QuotedArgFrom(s, flags, from) ==
    LET hits == {i \in from..Len(s) : QuotedArgAt(s, flags, i)[1] > 0}
    IN  IF hits = {} THEN <<0, 0>> ELSE QuotedArgAt(s, flags, Min(hits))

\* flag \s+ ([^\s]+) : the captured token of the leftmost match, else Null
BareArgMatch(s, flags) ==
    LET arg(i, f) == FirstNotIn(s, Spaces, i + Len(f))
        ok(i, f) == /\ MatchAt(ToLower(Sub(s, i, i + Len(f) - 1)), f, 1)
                    /\ i + Len(f) <= Len(s) /\ s[i + Len(f)] \in Spaces
                    /\ arg(i, f) <= Len(s)
        hits == {i \in 1..Len(s) : \E f \in flags : ok(i, f)}
        i0 == Min(hits)
        f0 == CHOOSE f \in flags : ok(i0, f)
    IN  IF hits = {} THEN Null
        ELSE Sub(s, arg(i0, f0), FirstIn(s, Spaces, arg(i0, f0)) - 1)

HeaderFlags == {<<"-", "h">>, <<"-", "-", "h", "e", "a", "d", "e", "r">>}

DataRawFlags == {<<"-", "-", "d", "a", "t", "a", "-", "r", "a", "w">>,
                 <<"-", "-", "d", "a", "t", "a", "-", "b", "i", "n", "a", "r", "y">>}

DataFlags == {<<"-", "d">>, <<"-", "-", "d", "a", "t", "a">>}

\* headers[key] = value on an insertion-ordered mapping
SetHeader(hs, key, value) ==
    IF \E k \in 1..Len(hs) : hs[k][1] = key
    THEN [k \in 1..Len(hs) |-> IF hs[k][1] = key THEN <<key, value>> ELSE hs[k]]
    ELSE Append(hs, <<key, value>>)

\* the while loop of lines 108-116 over the global header pattern
\* lines 110-115: the header of one match, kept when its colon is past the
\* first character
AddHeader(hs, headerLine) ==
    LET colon == IndexOf(headerLine, <<":">>)
    IN  IF colon > 1
        THEN SetHeader(hs, Trim(Sub(headerLine, 1, colon - 1)),
                           Str(Trim(From(headerLine, colon + 1))))
        ELSE hs

RECURSIVE ExtractHeaders(_, _, _)
\* one turn of the loop, m being the match exec returned (<<0, 0>> for null)
HeaderLoop(s, m, hs) ==
    IF m[1] = 0 THEN hs
    ELSE ExtractHeaders(s, m[2] + 1, AddHeader(hs, Sub(s, m[1] + 1, m[2] - 1)))

ExtractHeaders(s, from, hs) == HeaderLoop(s, QuotedArgFrom(s, HeaderFlags, from), hs)

\* bodyMatch[2] || bodyMatch[1] for a quoted match <<open, close>>
QuotedBody(s, m) ==
    IF m[2] > m[1] + 1 THEN Sub(s, m[1] + 1, m[2] - 1) ELSE <<s[m[1]]>>

\* the body of lines 120-134: the first of the four patterns that matches
FirstBody(s, q1, q2, b1, b2) ==
    IF q1[1] > 0 THEN Str(QuotedBody(s, q1))
    ELSE IF q2[1] > 0 THEN Str(QuotedBody(s, q2))
    ELSE IF b1 # Null THEN Str(b1)
    ELSE IF b2 # Null THEN Str(b2)
    ELSE Undefined

ExtractBody(s) ==
    FirstBody(s, QuotedArgFrom(s, DataRawFlags, 1), QuotedArgFrom(s, DataFlags, 1),
              BareArgMatch(s, DataRawFlags), BareArgMatch(s, DataFlags))

NoConfig == [null |-> TRUE, method |-> << >>, url |-> Undefined,
             headers |-> Undefined, body |-> Undefined]

Config(m, u, h, b) == [null |-> FALSE, method |-> m, url |-> u, headers |-> h, body |-> b]

\* lines 68-77: the command without its "curl" prefix, white space collapsed
NormalizeCommand(t) ==
    Trim(CollapseSpaces(IF StartsWith(ToLower(t), S_curl) THEN Trim(From(t, 5)) ELSE t))

\* lines 94-141 for the url and the method match found in command
CurlConfig(command, url, m) ==
    IF url = Null THEN NoConfig
    ELSE Config(IF m = Null THEN S_GET ELSE ToUpper(m),
                Str(url),
                [t |-> "obj", v |-> ExtractHeaders(command, 1, << >>)],
                ExtractBody(command))

ParseCommand(command) == CurlConfig(command, ExtractUrl(command), MethodMatch(command))

parseCurlCommand(curlCommand) == ParseCommand(NormalizeCommand(Trim(curlCommand)))

(***************************************************************************)
(* parseHttpRequest                                                        *)
(***************************************************************************)
\* lines 41-55 with "method: parsed.method" for "method: parsed.method || 'GET'"
RequestFromWithoutDefault(trimmed, parsed) ==
    IF /\ (StartsWith(trimmed, <<"{">>) \/ StartsWith(trimmed, <<"[">>))
       /\ parsed.ok
       /\ Truthy(JsonGet(parsed.val, <<"u", "r", "l">>))
    THEN [null |-> FALSE,
          method |-> ToText(JsonGet(parsed.val, <<"m", "e", "t", "h", "o", "d">>)),
          url |-> JsonGet(parsed.val, <<"u", "r", "l">>),
          headers |-> [t |-> "obj", v |-> << >>],
          body |-> JsonGet(parsed.val, <<"b", "o", "d", "y">>)]
    ELSE [null |-> TRUE, method |-> << >>, url |-> Undefined, headers |-> Undefined,
          body |-> Undefined]

\* lines 41-55 for the outcome parsed of JSON.parse(trimmed)
RequestFrom(trimmed, parsed) ==
    IF /\ (StartsWith(trimmed, <<"{">>) \/ StartsWith(trimmed, <<"[">>))
       /\ parsed.ok
       /\ Truthy(JsonGet(parsed.val, <<"u", "r", "l">>))
    THEN Config(IF Truthy(JsonGet(parsed.val, <<"m", "e", "t", "h", "o", "d">>))
                THEN ToText(JsonGet(parsed.val, <<"m", "e", "t", "h", "o", "d">>))
                ELSE S_GET,
                JsonGet(parsed.val, <<"u", "r", "l">>),
                IF Truthy(JsonGet(parsed.val, <<"h", "e", "a", "d", "e", "r", "s">>))
                THEN JsonGet(parsed.val, <<"h", "e", "a", "d", "e", "r", "s">>)
                ELSE [t |-> "obj", v |-> << >>],
                JsonGet(parsed.val, <<"b", "o", "d", "y">>))
    ELSE parseCurlCommand(trimmed)

ParseTrimmed(trimmed) == RequestFrom(trimmed, JsonParse(trimmed))

parseHttpRequest(content) == ParseTrimmed(Trim(content))

(***************************************************************************)
(* buildCurlCommand                                                        *)
(***************************************************************************)
\* str.replace(/c/g, by) for a single character c
RECURSIVE ReplaceChar(_, _, _)
ReplaceChar(s, c, by) ==
    IF s = << >> THEN << >>
    ELSE (IF Head(s) = c THEN by ELSE <<Head(s)>>) \o ReplaceChar(Tail(s), c, by)

\* ' -i -s -S -w "\nHTTPSTATUS:%{http_code}"' as the shell receives it
S_curlFlags ==
    <<"c", "u", "r", "l", " ", "-", "i", " ", "-", "s", " ", "-", "S", " ", "-", "w", " ",
      "\"", "\\", "n", "H", "T", "T", "P", "S", "T", "A", "T", "U", "S", ":",
      "%", "{", "h", "t", "t", "p", "_", "c", "o", "d", "e", "}", "\"">>

\* the -H flags of lines 171-177, one for each entry
RECURSIVE HeaderFlagsText(_)
HeaderFlagsText(es) ==
    IF es = << >> THEN << >>
    ELSE <<" ", "-", "H", " ", "\"">> \o es[1][1] \o <<":", " ">>
         \o ReplaceChar(es[1][2].v, "\"", <<"\\", "\"">>) \o <<"\"">>
         \o HeaderFlagsText(Tail(es))

\* value.replace / config.url.replace throw a TypeError on a value that is
\* not a string
BuildThrows(config) ==
    \/ config.url.t # "str"
    \/ \E k \in 1..Len(ObjectEntries(config.headers)) :
          ObjectEntries(config.headers)[k][2].t # "str"

buildCurlCommand(config) ==
    S_curlFlags
    \o (IF config.method # << >> /\ config.method # S_GET
        THEN <<" ", "-", "X", " ">> \o config.method ELSE << >>)
    \o (IF Truthy(config.headers) THEN HeaderFlagsText(ObjectEntries(config.headers)) ELSE << >>)
    \o (IF Truthy(config.body)
        THEN <<" ", "-", "d", " ", "'">>
             \o ReplaceChar(IF config.body.t = "str" THEN config.body.v
                            ELSE JsonStringify(config.body),
                            "'", <<"'", "\\", "'", "'">>)
             \o <<"'">>
        ELSE << >>)
    \o <<" ", "\"">> \o ReplaceChar(config.url.v, "\"", <<"\\", "\"">>) \o <<"\"">>

(***************************************************************************)
(* parseCurlResponse                                                       *)
(***************************************************************************)
S_HTTPSTATUS == <<"H", "T", "T", "P", "S", "T", "A", "T", "U", "S", ":">>

S_HTTP == <<"H", "T", "T", "P", "/">>

S_Unknown == <<"U", "n", "k", "n", "o", "w", "n">>

\* the line terminators of a JavaScript regular expression
LineEnds == {"\n", "\r"}

getStatusText(code) ==
    CASE code = 200 -> <<"O", "K">>
      [] code = 201 -> <<"C", "r", "e", "a", "t", "e", "d">>
      [] code = 204 -> <<"N", "o", " ", "C", "o", "n", "t", "e", "n", "t">>
      [] code = 400 -> <<"B", "a", "d", " ", "R", "e", "q", "u", "e", "s", "t">>
      [] code = 401 -> <<"U", "n", "a", "u", "t", "h", "o", "r", "i", "z", "e", "d">>
      [] code = 403 -> <<"F", "o", "r", "b", "i", "d", "d", "e", "n">>
      [] code = 404 -> <<"N", "o", "t", " ", "F", "o", "u", "n", "d">>
      [] code = 422 -> <<"U", "n", "p", "r", "o", "c", "e", "s", "s", "a", "b", "l", "e", " ",
                         "E", "n", "t", "i", "t", "y">>
      [] code = 500 -> <<"I", "n", "t", "e", "r", "n", "a", "l", " ", "S", "e", "r", "v", "e", "r",
                         " ", "E", "r", "r", "o", "r">>
      [] code = 502 -> <<"B", "a", "d", " ", "G", "a", "t", "e", "w", "a", "y">>
      [] code = 503 -> <<"S", "e", "r", "v", "i", "c", "e", " ", "U", "n", "a", "v", "a", "i", "l",
                         "a", "b", "l", "e">>
      [] OTHER -> S_Unknown

\* \d{3} at position i
ThreeDigits(s, i) == i >= 1 /\ i + 2 <= Len(s) /\ \A k \in i..(i + 2) : s[k] \in Digits

\* HTTPSTATUS:\d{3} at position i
MarkerAt(s, i) == MatchAt(s, S_HTTPSTATUS, i) /\ ThreeDigits(s, i + Len(S_HTTPSTATUS))

\* the position of the leftmost /HTTPSTATUS:(\d{3})/ at or after from, else 0
MarkerFrom(s, from) ==
    LET hits == {i \in from..Len(s) : MarkerAt(s, i)}
    IN  IF hits = {} THEN 0 ELSE Min(hits)

\* str.replace(/HTTPSTATUS:\d{3}\s*/g, '')
RECURSIVE RemoveMarkers(_, _)
RemoveMarkers(s, from) ==
    LET m == MarkerFrom(s, from)
    IN  IF m = 0 THEN From(s, from)
        ELSE Sub(s, from, m - 1)
             \o RemoveMarkers(s, FirstNotIn(s, Spaces, m + Len(S_HTTPSTATUS) + 3))

\* a status line pattern at position i, i being past the "^" or the "< " of
\* the pattern: HTTP\/[\d.]+ (\d{3}) then, with a phrase, " (.+?)(?:\r?\n|$)"
\* and without one "(?:\r?\n|$)", under the m flag.
\* The result is <<TRUE, code digits, phrase>> or <<FALSE, _, _>>.
StatusLineAt(s, i, withPhrase) ==
    LET v == i + Len(S_HTTP)
        sp == FirstNotIn(s, Digits \cup {"."}, v)
        c == sp + 1
        after == c + 3
        lineEnd == FirstIn(s, LineEnds, after)
        no == <<FALSE, << >>, << >>>>
    IN  IF ~(MatchAt(s, S_HTTP, i) /\ sp > v /\ sp <= Len(s) /\ s[sp] = " " /\ ThreeDigits(s, c))
        THEN no
        ELSE IF withPhrase
        THEN IF after <= Len(s) /\ s[after] = " " /\ FirstIn(s, LineEnds, after + 1) > after + 1
             THEN <<TRUE, Sub(s, c, c + 2), Sub(s, after + 1, FirstIn(s, LineEnds, after + 1) - 1)>>
             ELSE no
        ELSE IF lineEnd = after
             THEN <<TRUE, Sub(s, c, c + 2), << >>>>
             ELSE no

\* "^" under the m flag: the start of the text or just after a line terminator
LineStart(s, i) == i = 1 \/ (i > 1 /\ i <= Len(s) + 1 /\ s[i - 1] \in LineEnds)

\* the leftmost match of one of the four patterns of lines 307-312
\* (n = 1..4), as StatusLineAt returns it
\* pattern n tried at position i: patterns 1 and 2 start at "^", 3 and 4 at
\* "< "; patterns 1 and 3 capture a phrase
PatternAt(s, n, i) ==
    IF (IF n >= 3 THEN MatchAt(s, <<"<", " ">>, i) ELSE LineStart(s, i))
    THEN StatusLineAt(s, IF n >= 3 THEN i + 2 ELSE i, n \in {1, 3})
    ELSE <<FALSE, << >>, << >>>>

StatusPattern(s, n) ==
    LET hits == {i \in 1..Len(s) : PatternAt(s, n, i)[1]}
    IN  IF hits = {} THEN <<FALSE, << >>, << >>>> ELSE PatternAt(s, n, Min(hits))

\* str.split(/\r?\n/)
RECURSIVE SplitLines(_)
SplitLines(s) ==
    LET n == IndexOf(s, <<"\n">>)
        cut == IF n > 1 /\ s[n - 1] = "\r" THEN n - 2 ELSE n - 1
    IN  IF n = 0 THEN <<s>>
        ELSE <<Sub(s, 1, cut)>> \o SplitLines(From(s, n + 1))

\* the first run of three digits of a text, else Null
FirstThreeDigits(s) ==
    LET hits == {i \in 1..Len(s) : ThreeDigits(s, i)}
    IN  IF hits = {} THEN Null ELSE Sub(s, Min(hits), Min(hits) + 2)

\* lines 290-301: <<statusCode, statusText, output>> once the marker has
\* been looked for, m being the place of the first marker (0 for none)
MarkerStatus(output0, m) ==
    IF m > 0
    THEN <<ParseInt(Sub(output0, m + 11, m + 13)),
           getStatusText(ParseInt(Sub(output0, m + 11, m + 13))),
           Trim(RemoveMarkers(output0, 1))>>
    ELSE <<0, S_Unknown, output0>>

\* lines 316-320 for the match of a status line pattern
LineStatus(st, line) ==
    <<ParseInt(line[2]),
      IF line[3] # << >> THEN Trim(line[3]) ELSE getStatusText(ParseInt(line[2])),
      st[3]>>

\* lines 306-322: the first of the four patterns that matches, tried when
\* statusCode is 0
StatusLineStatus(st) ==
    LET matching == {n \in 1..4 : StatusPattern(st[3], n)[1]}
    IN  IF st[1] = 0 /\ matching # {}
        THEN LineStatus(st, StatusPattern(st[3], Min(matching)))
        ELSE st

\* lines 325-332: the first three digits of the first line, tried when
\* statusCode is still 0
FirstLineStatus(st) ==
    LET first == FirstThreeDigits(SplitLines(st[3])[1])
    IN  IF st[1] = 0 /\ first # Null
        THEN <<ParseInt(first), getStatusText(ParseInt(first)), st[3]>>
        ELSE st

\* lines 290-332: <<statusCode, statusText, output without the markers>>
ParseStatus(output0) ==
    FirstLineStatus(StatusLineStatus(MarkerStatus(output0, MarkerFrom(output0, 1))))

\* the fallback scan of lines 351-365: headerEndIndex (0-based) over lines
RECURSIVE HeaderEndIndex(_, _, _)
HeaderEndIndex(lines, i, sofar) ==
    IF i > Len(lines) THEN sofar
    ELSE LET line == Trim(lines[i])
         IN  IF StartsWith(line, S_HTTP) THEN HeaderEndIndex(lines, i + 1, sofar)
             ELSE IF line # << >> /\ ~Includes(line, <<":">>) THEN i - 1
             ELSE HeaderEndIndex(lines, i + 1, i)

\* lines 336-369: <<headerSection, bodySection>>
SplitHeaderBody(output) ==
    LET crlf == IndexOf(output, <<"\r", "\n", "\r", "\n">>)
        lf == IndexOf(output, <<"\n", "\n">>)
        lines == SplitLines(output)
        h == HeaderEndIndex(lines, 1, 0)
    IN  IF crlf > 0 THEN <<Sub(output, 1, crlf - 1), From(output, crlf + 4)>>
        ELSE IF lf > 0 THEN <<Sub(output, 1, lf - 1), From(output, lf + 2)>>
        ELSE <<Join(Sub(lines, 1, h), <<"\n">>), Join(From(lines, h + 1), <<"\n">>)>>

\* lines 372-388 over the lines of the header section
RECURSIVE ParseHeaderLines(_, _)
ParseHeaderLines(lines, hs) ==
    IF lines = << >> THEN hs
    ELSE LET t == Trim(lines[1])
             colon == IndexOf(t, <<":">>)
             key == Trim(Sub(t, 1, colon - 1))
         IN  ParseHeaderLines(Tail(lines),
               IF ~StartsWith(t, S_HTTP) /\ colon > 0 /\ key # << >>
               THEN SetHeader(hs, key, Trim(From(t, colon + 1)))
               ELSE hs)

Result(code, text, hs, body) ==
    [statusCode |-> code, statusText |-> text, headers |-> hs, body |-> body]

\* the text parseCurlResponse works on (lines 269-277)
ChooseOutput(stdout, stderr) ==
    IF Trim(stdout) = << >> /\ stderr # << >> /\ Includes(stderr, S_HTTP)
    THEN Trim(stderr)
    ELSE Trim(stdout)

\* lines 372-398 for the status st and the two sections parts
ResultOf(st, parts) ==
    Result(st[1], st[2],
           ParseHeaderLines(SplitLines(parts[1]), << >>),
           Trim(RemoveMarkers(parts[2], 1)))

\* lines 336-398 for the status st
HeadersAndBody(st) == ResultOf(st, SplitHeaderBody(st[3]))

\* lines 279-398 for the text chosen at lines 269-277
ParseOutput(output0) ==
    IF output0 = << >> THEN Result(0, S_Unknown, << >>, << >>)
    ELSE HeadersAndBody(ParseStatus(output0))

parseCurlResponse(stdout, stderr) == ParseOutput(ChooseOutput(stdout, stderr))

(***************************************************************************)
(* formatResponseBody, formatXML, formatHttpResponse                       *)
(***************************************************************************)
\* the value of a thrown exception, which no text equals
Thrown == <<"<throw>">>

\* String(n) of a natural number
RECURSIVE IntToText(_)
IntToText(n) ==
    IF n < 10 THEN <<<<"0", "1", "2", "3", "4", "5", "6", "7", "8", "9">>[n + 1]>>
    ELSE IntToText(n \div 10) \o IntToText(n % 10)

\* ' '.repeat(n), for n >= 0
Blanks(n) == [k \in 1..n |-> " "]

\* JSON.stringify([value]) for JSON.stringify(value, null, 2)
JsonPrettyInArray(val, d) == <<"[">> \o JsonStringify(val) \o <<"]">>

\* JSON.stringify(value, null, 2) at nesting depth d
RECURSIVE JsonPretty(_, _)
JsonPretty(val, d) ==
    CASE val.t = "obj" /\ val.v # << >> ->
           LET es == ObjectEntries(val)
           IN  <<"{", "\n">>
               \o Join([k \in 1..Len(es) |->
                          Blanks(2 * (d + 1)) \o <<"\"">> \o es[k][1] \o <<"\"", ":", " ">>
                          \o JsonPretty(es[k][2], d + 1)],
                       <<",", "\n">>)
               \o <<"\n">> \o Blanks(2 * d) \o <<"}">>
      [] val.t = "arr" /\ val.v # << >> ->
           <<"[", "\n">>
           \o Join([k \in 1..Len(val.v) |-> Blanks(2 * (d + 1)) \o JsonPretty(val.v[k], d + 1)],
                   <<",", "\n">>)
           \o <<"\n">> \o Blanks(2 * d) \o <<"]">>
      [] OTHER -> JsonStringify(val)

\* xml.replace(/>\s+</g, '><'): the white space runs between ">" and "<" go
CompressTags(s) ==
    LET gap(i) == /\ s[i] \in Spaces
                  /\ LET a == Max({0} \cup {k \in 1..i : s[k] \notin Spaces})
                         b == FirstNotIn(s, Spaces, i)
                     IN  a >= 1 /\ s[a] = ">" /\ b <= Len(s) /\ s[b] = "<"
    IN  Pick(s, {i \in 1..Len(s) : ~gap(i)}, 1)

\* the exec loop of lines 458-474 with tab.repeat taking a negative count for 0
RECURSIVE XmlLoopWithoutThrow(_, _, _, _)
XmlLoopWithoutThrow(c, lastIndex, indent, formatted) ==
    LET m == IndexFrom(c, <<">", "<">>, lastIndex)
        e == FirstNotIn(c, {"/"}, m + 2)
        slashes == Sub(c, m + 2, e - 1)
        step == IF slashes # <<"/">> THEN indent ELSE indent - 1
    IN  IF m = 0 THEN formatted \o From(c, lastIndex)
        ELSE XmlLoopWithoutThrow(c, e, IF slashes # <<"/">> THEN indent + 1 ELSE indent - 1,
                                 formatted \o Sub(c, lastIndex, m) \o <<"\n">>
                                 \o Blanks(2 * step) \o <<"<">> \o slashes)

\* the exec loop of lines 458-474 from lastIndex (1-based), or Thrown when
\* tab.repeat(indent) is given a negative count
RECURSIVE XmlLoop(_, _, _, _)
XmlLoop(c, lastIndex, indent, formatted) ==
    LET m == IndexFrom(c, <<">", "<">>, lastIndex)
        e == FirstNotIn(c, {"/"}, m + 2)
        slashes == Sub(c, m + 2, e - 1)
        upto == formatted \o Sub(c, lastIndex, m)
    IN  IF m = 0 THEN formatted \o From(c, lastIndex)
        ELSE IF slashes # <<"/">>
        THEN XmlLoop(c, e, indent + 1,
                     upto \o <<"\n">> \o Blanks(2 * indent) \o <<"<">> \o slashes)
        ELSE IF indent - 1 < 0 THEN Thrown
        ELSE XmlLoop(c, e, indent - 1,
                     upto \o <<"\n">> \o Blanks(2 * (indent - 1)) \o <<"<">> \o slashes)

formatXML(xml) == XmlLoop(Trim(CompressTags(xml)), 1, 0, << >>)

S_appjson == <<"a", "p", "p", "l", "i", "c", "a", "t", "i", "o", "n", "/", "j", "s", "o", "n">>

S_xml == <<"x", "m", "l">>

\* lines 415-436 for the outcomes of JSON.parse and of formatXML
FormattedOr(body, asJson, parsed, asXml, xml) ==
    IF asJson /\ parsed.ok THEN JsonPretty(parsed.val, 0)
    ELSE IF asXml /\ xml # Thrown THEN xml
    ELSE body

\* contentType is Null when the response has no Content-Type header
formatResponseBody(body, contentType) ==
    LET trimmedBody == Trim(body)
        asJson == \/ (contentType # Null /\ Includes(contentType, S_appjson))
                  \/ (StartsWith(trimmedBody, <<"{">>) /\ EndsWith(trimmedBody, <<"}">>))
                  \/ (StartsWith(trimmedBody, <<"[">>) /\ EndsWith(trimmedBody, <<"]">>))
        asXml == \/ (contentType # Null /\ Includes(contentType, S_xml))
                 \/ /\ (\/ StartsWith(trimmedBody, <<"<", "?", "x", "m", "l">>)
                        \/ StartsWith(trimmedBody, <<"<">>))
                    /\ EndsWith(trimmedBody, <<">">>)
    IN  IF trimmedBody = << >> THEN body
        ELSE FormattedOr(body, asJson, JsonParse(trimmedBody), asXml, formatXML(trimmedBody))

\* result.headers[name], Null when absent
HeaderValue(hs, name) ==
    LET hits == {k \in 1..Len(hs) : hs[k][1] = name}
    IN  IF hits = {} THEN Null ELSE hs[CHOOSE k \in hits : TRUE][2]

\* result.headers['Content-Type'] || result.headers['content-type']
ContentTypeOf(hs) ==
    LET upper == HeaderValue(hs, <<"C", "o", "n", "t", "e", "n", "t", "-", "T", "y", "p", "e">>)
        lower == HeaderValue(hs, <<"c", "o", "n", "t", "e", "n", "t", "-", "t", "y", "p", "e">>)
    IN  IF upper # Null /\ upper # << >> THEN upper
        ELSE IF lower = << >> THEN Null ELSE lower

formatHttpResponse(result) ==
    <<"H", "T", "T", "P", "/", "1", ".", "1", " ">> \o IntToText(result.statusCode)
    \o <<" ">> \o result.statusText \o <<"\n">>
    \o Concat([k \in 1..Len(result.headers) |->
                 result.headers[k][1] \o <<":", " ">> \o result.headers[k][2] \o <<"\n">>])
    \o <<"\n">>
    \o formatResponseBody(result.body, ContentTypeOf(result.headers))

(***************************************************************************)
(* Documents, sections and paths                                           *)
(***************************************************************************)
\* document.getText(): the lines joined by the document's end-of-line text
GetText(document) == Join(document.lines, document.eol)

\* str.split('\n')
RECURSIVE SplitLf(_)
SplitLf(s) ==
    LET n == IndexOf(s, <<"\n">>)
    IN  IF n = 0 THEN <<s>> ELSE <<Sub(s, 1, n - 1)>> \o SplitLf(From(s, n + 1))

\* line.match(/^##\s+(.+)$/): the captured title text, else Null
HeaderTitle(line) ==
    LET ws == FirstNotIn(line, Spaces, 3)
        starts == {k \in 4..ws : k <= Len(line)
                                 /\ \A j \in k..Len(line) : line[j] \notin LineEnds}
    IN  IF StartsWith(line, <<"#", "#">>) /\ Len(line) >= 4 /\ line[3] \in Spaces /\ starts # {}
        THEN From(line, Max(starts))
        ELSE Null

\* the loop of parseRequestSections over lines i.. (0-based line numbers):
\* cur holds the open section, if any (a sequence of at most one section)
RECURSIVE SectionsLoop(_, _, _, _)
SectionsLoop(lines, i, cur, done) ==
    LET close(endLine) == done \o [k \in 1..Len(cur) |-> [cur[k] EXCEPT !.endLine = endLine]]
        title == HeaderTitle(lines[i])
    IN  IF i > Len(lines) THEN close(Len(lines) - 1)
        ELSE IF title = Null THEN SectionsLoop(lines, i + 1, cur, done)
        ELSE SectionsLoop(lines, i + 1,
               <<[title |-> Trim(title), titleLine |-> i - 1, startLine |-> i - 1,
                  endLine |-> Len(lines) - 1]>>,
               close(i - 2))

parseRequestSections(document) == SectionsLoop(SplitLf(GetText(document)), 1, << >>, << >>)

\* text.replace(/\\\s*$/, ''): a backslash followed only by white space goes
StripContinuation(text) ==
    LET hits == {i \in 1..Len(text) : text[i] = "\\"
                                     /\ \A j \in (i + 1)..Len(text) : text[j] \in Spaces}
    IN  IF hits = {} THEN text ELSE Sub(text, 1, Min(hits) - 1)

\* the loop of lines 576-588 over the 0-based lines i..endLine
RECURSIVE SectionLines(_, _, _)
SectionLines(document, i, endLine) ==
    IF i > endLine \/ i >= Len(document.lines) THEN << >>
    ELSE LET text == Trim(document.lines[i + 1])
             cleanedLine == Trim(StripContinuation(text))
         IN  (IF text # << >> /\ ~StartsWith(text, <<"#", "#">>) /\ cleanedLine # << >>
              THEN <<cleanedLine>> ELSE << >>)
             \o SectionLines(document, i + 1, endLine)

\* curlCommand.match(/curl\s+.*/i): the text of the leftmost match, else Null
CurlMatch(s) ==
    LET hits == {i \in 1..Len(s) : /\ MatchAt(ToLower(Sub(s, i, i + 3)), S_curl, 1)
                                   /\ i + 4 <= Len(s) /\ s[i + 4] \in Spaces}
    IN  IF hits = {} THEN Null
        ELSE Sub(s, Min(hits), FirstIn(s, LineEnds, FirstNotIn(s, Spaces, Min(hits) + 4)) - 1)

\* the curl command of a section, Null when none is found
extractCurlFromSection(document, startLine, endLine) ==
    LET curlCommand == Trim(Join(SectionLines(document, startLine, endLine), <<" ">>))
    IN  IF StartsWith(ToLower(curlCommand), S_curl) THEN curlCommand
        ELSE CurlMatch(curlCommand)

\* the position of the last c in s, else 0
LastIndexOf(s, c) == Max({0} \cup {i \in 1..Len(s) : s[i] = c})

\* path.basename(p), path.dirname(p), path.extname(p), path.parse(p).name and
\* path.join(dir, file) for the absolute POSIX paths of the model, which have
\* no "." or ".." segment and no trailing "/"
Basename(p) == From(p, LastIndexOf(p, "/") + 1)

Dirname(p) ==
    LET n == LastIndexOf(p, "/")
    IN  IF n = 0 THEN <<".">> ELSE IF n = 1 THEN <<"/">> ELSE Sub(p, 1, n - 1)

Extname(p) ==
    LET b == Basename(p)
        n == LastIndexOf(b, ".")
    IN  IF n <= 1 THEN << >> ELSE From(b, n)

PathName(p) == Sub(Basename(p), 1, Len(Basename(p)) - Len(Extname(p)))

PathJoin(dir, file) == IF dir = <<"/">> THEN dir \o file ELSE dir \o <<"/">> \o file

getFileExtension(filePath) ==
    IF StartsWith(Extname(filePath), <<".">>) THEN From(Extname(filePath), 2)
    ELSE Extname(filePath)

getHttpResponsePath(requestPath) ==
    PathJoin(Dirname(requestPath),
             PathName(requestPath) \o <<".">>
             \o (IF ToLower(getFileExtension(requestPath)) = <<"r", "e", "q">>
                 THEN <<"r", "e", "s">>
                 ELSE <<"r", "e", "s", "p", "o", "n", "s", "e">>))

\* sectionTitle.replace(/[^a-zA-Z0-9]/g, '_').toLowerCase()
SanitizeTitle(title) ==
    ToLower([i \in 1..Len(title) |->
               IF title[i] \in Digits \cup Lowers \cup Uppers THEN title[i] ELSE "_"])

\* the response path of lines 629-654; title is Null or << >> when the call
\* gives no usable section title
ResponsePath(requestPath, hasRange, title) ==
    LET baseResponsePath == getHttpResponsePath(requestPath)
        responseExt == Extname(baseResponsePath)
        baseFileName == Sub(Basename(baseResponsePath), 1,
                            Len(Basename(baseResponsePath)) - Len(responseExt))
    IN  IF hasRange /\ title # Null /\ title # << >>
        THEN PathJoin(Dirname(baseResponsePath),
                      baseFileName \o <<"_">> \o SanitizeTitle(title) \o responseExt)
        ELSE baseResponsePath

(***************************************************************************)
(* The request files, the tool outputs and the settings the model runs on  *)
(***************************************************************************)
\* a file of three sections: A holds a request (a POST-style body that quotes
\* a shell message), B holds no curl command, C a curl command without URL
DocSections ==
    [lines |-> <<
       <<"#", "#", " ", "A">>,
       <<"c", "u", "r", "l", " ", "-", "d", " ", "'", "c", "u", "r", "l", ":", " ", "n", "o", "t", " ", "f", "o", "u", "n", "d", "'", " ", "\\">>,
       <<" ", " ", "\"", "h", "t", "t", "p", ":", "/", "/", "h", "/", "a", "\"">>,
       <<"#", "#", " ", "B">>,
       <<"e", "c", "h", "o", " ", "n", "o", "n", "e">>,
       <<"#", "#", " ", "C">>,
       <<"c", "u", "r", "l", " ", "-", "X", " ", "P", "O", "S", "T", " ", "n", "o", "w", "h", "e", "r", "e">>>>,
     eol |-> <<"\n">>]

\* a structured request
DocJson ==
    [lines |-> <<
       <<"{", "\"", "u", "r", "l", "\"", ":", " ", "\"", "h", "t", "t", "p", ":", "/", "/", "h", "/", "b", "\"", ",", " ", "\"", "m", "e", "t", "h", "o", "d", "\"", ":", " ", "\"", "P", "U", "T", "\"", "}">>>>,
     eol |-> <<"\n">>]

\* a structured text without url
DocNoUrl ==
    [lines |-> <<
       <<"{", "\"", "m", "e", "t", "h", "o", "d", "\"", ":", " ", "\"", "G", "E", "T", "\"", "}">>>>,
     eol |-> <<"\n">>]

\* a structured request whose url is a number
DocBadUrl ==
    [lines |-> <<
       <<"{", "\"", "u", "r", "l", "\"", ":", " ", "5", "}">>>>,
     eol |-> <<"\n">>]

PathA ==
    <<"/", "h", "/", "a", ".", "r", "e", "q">>

PathB ==
    <<"/", "h", "/", "b", ".", "r", "e", "q">>

PathC ==
    <<"/", "h", "/", "c", ".", "r", "e", "q">>

PathD ==
    <<"/", "h", "/", "d", ".", "r", "e", "q">>

\* the standard output of the tool for two answers of the server
OutOk ==
    <<"H", "T", "T", "P", "/", "1", ".", "1", " ", "2", "0", "0", " ", "O", "K", "\r", "\n",
      "C", "o", "n", "t", "e", "n", "t", "-", "T", "y", "p", "e", ":", " ", "a", "p", "p", "l",
      "i", "c", "a", "t", "i", "o", "n", "/", "j", "s", "o", "n", "\r", "\n", "\r", "\n", "{",
      "\"", "a", "\"", ":", "1", "}", "\n", "H", "T", "T", "P", "S", "T", "A", "T", "U", "S",
      ":", "2", "0", "0">>

OutNotFound ==
    <<"H", "T", "T", "P", "/", "1", ".", "1", " ", "4", "0", "4", " ", "N", "o", "t", " ", "F",
      "o", "u", "n", "d", "\r", "\n", "\r", "\n", "n", "o", "\n", "H", "T", "T", "P", "S", "T",
      "A", "T", "U", "S", ":", "4", "0", "4">>

\* the standard error of a failed transfer and of two shells without curl
ErrCurl ==
    <<"c", "u", "r", "l", ":", " ", "(", "7", ")", " ", "F", "a", "i", "l", "e", "d", " ", "t",
      "o", " ", "c", "o", "n", "n", "e", "c", "t">>

ErrBash ==
    <<"/", "b", "i", "n", "/", "s", "h", ":", " ", "c", "u", "r", "l", ":", " ", "c", "o", "m",
      "m", "a", "n", "d", " ", "n", "o", "t", " ", "f", "o", "u", "n", "d", "\n">>

ErrDash ==
    <<"/", "b", "i", "n", "/", "s", "h", ":", " ", "1", ":", " ", "c", "u", "r", "l", ":", " ",
      "n", "o", "t", " ", "f", "o", "u", "n", "d", "\n">>

S_cmdNotFound ==
    <<"c", "u", "r", "l", ":", " ", "c", "o", "m", "m", "a", "n", "d", " ", "n", "o", "t", " ",
      "f", "o", "u", "n", "d">>

S_notFound ==
    <<"c", "u", "r", "l", ":", " ", "n", "o", "t", " ", "f", "o", "u", "n", "d">>

S_commandFailed ==
    <<"C", "o", "m", "m", "a", "n", "d", " ", "f", "a", "i", "l", "e", "d", ":", " ">>

S_maxBuffer ==
    <<"s", "t", "d", "o", "u", "t", " ", "m", "a", "x", "B", "u", "f", "f", "e", "r", " ", "l",
      "e", "n", "g", "t", "h", " ", "e", "x", "c", "e", "e", "d", "e", "d">>

S_spawnFailed ==
    <<"s", "p", "a", "w", "n", " ", "/", "b", "i", "n", "/", "s", "h", " ", "E", "A", "G", "A",
      "I", "N">>

S_timeoutAfter ==
    <<"R", "e", "q", "u", "e", "s", "t", " ", "t", "i", "m", "e", "o", "u", "t", " ", "a", "f",
      "t", "e", "r", " ">>

S_seconds ==
    <<" ", "s", "e", "c", "o", "n", "d", "s">>

S_installCurl ==
    <<"c", "u", "r", "l", " ", "c", "o", "m", "m", "a", "n", "d", " ", "n", "o", "t", " ", "f",
      "o", "u", "n", "d", ".", " ", "P", "l", "e", "a", "s", "e", " ", "i", "n", "s", "t", "a",
      "l", "l", " ", "c", "u", "r", "l", " ", "t", "o", " ", "u", "s", "e", " ", "t", "h", "i",
      "s", " ", "f", "e", "a", "t", "u", "r", "e", ".">>

\* the request files of the workspace
RequestFiles ==
    {[path |-> PathA, document |-> DocSections],
     [path |-> PathB, document |-> DocJson],
     [path |-> PathC, document |-> DocNoUrl],
     [path |-> PathD, document |-> DocBadUrl]}

\* the arguments provideCodeLenses gives the send-request command: one call
\* for each section, or one for the whole file when it has no section
CodeLensCalls(file) ==
    LET sections == parseRequestSections(file.document)
    IN  IF Len(sections) > 0
        THEN {[file |-> file.path, hasRange |-> TRUE, startLine |-> sections[k].startLine,
               endLine |-> sections[k].endLine, title |-> sections[k].title]
              : k \in 1..Len(sections)}
        ELSE {[file |-> file.path, hasRange |-> FALSE, startLine |-> 0, endLine |-> 0,
               title |-> Null]}

Calls == UNION {CodeLensCalls(file) : file \in RequestFiles}

DocumentOf(path) == (CHOOSE file \in RequestFiles : file.path = path).document

\* what lines 635-661 make of each call: the content read and the request
\* parsed from it (extracted is FALSE where extractCurlFromSection finds none)
\* lines 635-655: the content of the call c, Null or << >> where
\* extractCurlFromSection finds no command
RequestText(c) ==
    IF c.hasRange
    THEN extractCurlFromSection(DocumentOf(c.file), c.startLine, c.endLine)
    ELSE GetText(DocumentOf(c.file))

\* lines 657-661 and 206 for the request config (NoConfig for null)
Built(c, extracted, config) ==
    [extracted |-> extracted,
     config |-> config,
     throws |-> ~config.null /\ BuildThrows(config),
     curlCommand |-> IF config.null \/ BuildThrows(config) THEN << >>
                     ELSE buildCurlCommand(config),
     responsePath |-> ResponsePath(c.file, c.hasRange, c.title)]

PreparedFrom(c, content) ==
    LET extracted == ~c.hasRange \/ (content # Null /\ content # << >>)
    IN  Built(c, extracted, IF extracted THEN parseHttpRequest(content) ELSE NoConfig)

Prepared == [c \in Calls |-> PreparedFrom(c, RequestText(c))]

NoCall == [file |-> << >>, hasRange |-> FALSE, startLine |-> 0, endLine |-> 0, title |-> Null]

\* what the tool prints on a successful run
StdoutSamples == {OutOk}

\* cursorDeeplink.httpRequestTimeout as the user may set it (seconds)
DefaultTimeout == 10

Timeouts == {0, DefaultTimeout}

\* maxBuffer of the exec call, in bytes
MaxBuffer == 10485760

\* the executions in flight at one time are drawn from Procs
Procs == {"p1", "p2"}

Rank(e) == IF e = "p1" THEN 1 ELSE 2

\* at most MaxCalls calls of executeHttpRequestFromFile are started
MaxCalls == 2

\* the clock stops at MaxTime milliseconds
MaxTime == 8

\* the calls started where the return of every call is checked
MaxFairCalls == 1

(***************************************************************************)
(* The state of the extension host                                         *)
(***************************************************************************)
VARIABLES
    pc,              \* where each call of executeHttpRequestFromFile stands
    args,            \* the arguments of each call
    loc,             \* the local variables of each call
    child,           \* the subprocess of each call and its kill timer
    promise,         \* the promise of executeHttpRequest of each call
    messages,        \* the messages each call has shown to the user
    log,             \* the steps each call has taken, in order
    now,             \* Date.now(), in milliseconds
    files,           \* the response files on disk: path -> text
    untitled,        \* the unsaved documents, in order of creation
    executionTimes,  \* the executionTimes map: uri -> seconds text
    calls,           \* the number of calls started
    lastSuccess,     \* history: file uri -> duration of the last execution that
                     \* succeeded with that destination
    response,        \* a call of parseCurlResponse by itself: the (stdout, stderr)
                     \* it is given and what it returned
    unit             \* a call of one of the other functions by itself: the
                     \* function, its arguments and what it returned

vars == <<pc, args, loc, child, promise, messages, log, now, files, untitled,
          executionTimes, calls, lastSuccess, response, unit>>

NoLocals == [responsePath |-> << >>, saveFile |-> FALSE, timeout |-> 0, curlCommand |-> << >>,
             startTime |-> 0, executionTimeSeconds |-> << >>, responseText |-> << >>,
             statusCode |-> 0]

NoChild == [state |-> "none", timer |-> "none", outcome |-> "none"]

NoPromise == [state |-> "none", settled |-> 0, kind |-> "none", message |-> << >>]

NoUnit == [fn |-> "none", input |-> << >>, output |-> << >>, done |-> FALSE]

NoRaw == [stdout |-> << >>, stderr |-> << >>]

NotParsed == [statusCode |-> -1, statusText |-> << >>, headers |-> << >>, body |-> << >>]

\* vscode.Uri.file(path).toString() and the uri of the n-th unsaved document
FileUri(path) == <<"file", path>>

UntitledUri(n) == <<"untitled", n>>

\* (ms / 1000).toFixed(2), for the even ms values the clock takes (no value
\* lies half way between two hundredths)
ToFixed2(ms) ==
    LET cents == (ms + 5) \div 10
    IN  IntToText(cents \div 100) \o <<".">> \o IntToText((cents % 100) \div 10)
        \o IntToText(cents % 10)

\* executionTimes.set(key, value)
MapSet(map, key, value) ==
    [k \in DOMAIN map \cup {key} |-> IF k = key THEN value ELSE map[k]]

\* getExecutionTime(uri): Null stands for undefined
getExecutionTime(uri) ==
    IF uri \in DOMAIN executionTimes THEN executionTimes[uri] ELSE Null

S_writeFailed == <<"E", "I", "O">>

S_typeError == <<"T", "y", "p", "e", "E", "r", "r", "o", "r">>

S_openFailed == <<"c", "a", "n", "n", "o", "t", " ", "o", "p", "e", "n">>

S_showFailed == <<"c", "a", "n", "n", "o", "t", " ", "s", "h", "o", "w">>

Error(text, detail) == [level |-> "error", text |-> text, detail |-> detail]

Info(text, status, secs) ==
    [level |-> "info", text |-> text,
     detail |-> IntToText(status) \o <<" ", "(">> \o secs \o <<"s", ")">>]

Init ==
    /\ pc = [e \in Procs |-> "idle"]
    /\ args = [e \in Procs |-> NoCall]
    /\ loc = [e \in Procs |-> NoLocals]
    /\ child = [e \in Procs |-> NoChild]
    /\ promise = [e \in Procs |-> NoPromise]
    /\ messages = [e \in Procs |-> << >>]
    /\ log = [e \in Procs |-> << >>]
    /\ now = 0
    /\ files = << >>
    /\ untitled = << >>
    /\ executionTimes = << >>
    /\ calls = 0
    /\ lastSuccess = << >>
    /\ response = [raw |-> NoRaw, parsed |-> NotParsed]
    /\ unit = NoUnit

(***************************************************************************)
(* executeHttpRequestFromFile, one action for each run of JavaScript       *)
(* between two awaits                                                      *)
(***************************************************************************)
\* the record a new call is kept in: the first one that is free
FreeSlot ==
    CHOOSE e \in Procs : pc[e] = "idle" /\ \A f \in Procs : pc[f] = "idle" => Rank(e) <= Rank(f)

\* the command is invoked: up to the await of openTextDocument(requestUri)
Call(e) ==
    /\ pc[e] = "idle"
    /\ calls < MaxCalls
    /\ e = FreeSlot
    /\ \E c \in Calls : args' = [args EXCEPT ![e] = c]
    /\ pc' = [pc EXCEPT ![e] = "openRequest"]
    /\ calls' = calls + 1
    /\ UNCHANGED <<loc, child, promise, messages, log, now, files, untitled, executionTimes>>
    /\ UNCHANGED <<lastSuccess, response, unit>>

\* the function returns after one error message (lines 637-639, 658-660) or
\* after the outer catch alone (lines 788-791)
Abort(e, stage, msg, steps) ==
    /\ pc' = [pc EXCEPT ![e] = "done"]
    /\ messages' = [messages EXCEPT ![e] = Append(@, msg)]
    /\ log' = [log EXCEPT ![e] = @ \o steps \o <<stage>>]
    /\ loc' = [loc EXCEPT ![e] = NoLocals]
    /\ UNCHANGED <<args, child, promise, now, files, untitled, executionTimes, calls>>

\* a retry in place of the report of a failure
FailAndRetry(e, stage, detail, steps) ==
    /\ pc' = [pc EXCEPT ![e] = "openRequest"]
    /\ log' = [log EXCEPT ![e] = @ \o steps \o <<stage>>]
    /\ UNCHANGED <<messages, loc>>

\* the catch of lines 782-785 and then, the error being thrown again and
\* withProgress passing the rejection on, the catch of lines 788-791
Fail(e, stage, detail, steps) ==
    /\ pc' = [pc EXCEPT ![e] = "done"]
    /\ messages' = [messages EXCEPT ![e] =
                      @ \o <<Error("Failed to execute HTTP request: ", detail),
                             Error("Error processing HTTP request: ", detail)>>]
    /\ log' = [log EXCEPT ![e] = @ \o steps \o <<stage>>]
    /\ loc' = [loc EXCEPT ![e] = NoLocals]

\* lines 623-681 without the check of line 637
StageUnchecked(p, opened) ==
    IF ~opened THEN "failed-open"
    ELSE IF p.extracted /\ p.config.null THEN "failed-parse"
    ELSE IF p.throws THEN "failed-build"
    ELSE "spawn"

\* how far lines 623-681 and 205-212 get with the prepared request p
Stage(p, opened) ==
    IF ~opened THEN "failed-open"
    ELSE IF ~p.extracted THEN "failed-extract"
    ELSE IF p.config.null THEN "failed-parse"
    ELSE IF p.throws THEN "failed-build"
    ELSE "spawn"

\* the steps of lines 635-681 and 205-212 taken on the way to a stage
StepsTo(a, stage) ==
    LET extract == IF a.hasRange THEN <<"extract">> ELSE << >>
    IN  IF stage = "failed-open" THEN << >>
        ELSE IF stage = "failed-extract" THEN extract
        ELSE IF stage = "failed-parse" THEN extract \o <<"parse">>
        ELSE IF stage = "failed-build" THEN extract \o <<"parse", "timerStart", "build">>
        ELSE extract \o <<"parse", "timerStart", "build", "spawn">>

\* openTextDocument(requestUri) settles: lines 623-681 and, inside
\* executeHttpRequest, lines 205-212, up to the await of its promise
OpenRequestDone(e) ==
    /\ pc[e] = "openRequest"
    /\ \E opened \in BOOLEAN, saveFile \in BOOLEAN, timeout \in Timeouts,
          a \in {args[e]}, p \in {Prepared[args[e]]} :
         \E stage \in {Stage(p, opened)} :
             IF stage = "failed-open"
             THEN Abort(e, stage, Error("Error processing HTTP request: ", S_openFailed),
                        StepsTo(a, stage))
             ELSE IF stage = "failed-extract"
             THEN Abort(e, stage,
                        Error("No curl command found in the selected section.", << >>),
                        StepsTo(a, stage))
             ELSE IF stage = "failed-parse"
             THEN Abort(e, stage,
                        Error("Failed to parse HTTP request. Please check the file format.",
                              << >>),
                        StepsTo(a, stage))
             ELSE IF stage = "failed-build"
             THEN /\ Fail(e, stage, S_typeError, StepsTo(a, stage))
                  /\ promise' = [promise EXCEPT ![e] =
                                   [state |-> "rejected", settled |-> 1, kind |-> "TypeError",
                                    message |-> S_typeError]]
                  /\ UNCHANGED <<args, child, now, files, untitled, executionTimes, calls>>
             ELSE /\ loc' = [loc EXCEPT ![e] =
                               [NoLocals EXCEPT
                                  !.responsePath = p.responsePath,
                                  !.saveFile = saveFile,
                                  !.timeout = timeout,
                                  !.startTime = now,
                                  !.curlCommand = p.curlCommand]]
                  /\ child' = [child EXCEPT ![e] =
                                 [state |-> "running",
                                  timer |-> IF timeout * 1000 > 0 THEN "armed" ELSE "none",
                                  outcome |-> "none"]]
                  /\ promise' = [promise EXCEPT ![e] = [NoPromise EXCEPT !.state = "pending"]]
                  /\ log' = [log EXCEPT ![e] = @ \o StepsTo(a, stage)]
                  /\ pc' = [pc EXCEPT ![e] = "running"]
                  /\ UNCHANGED <<args, messages, now, files, untitled, executionTimes, calls>>
    /\ UNCHANGED <<lastSuccess, response, unit>>

(***************************************************************************)
(* The subprocess, as child_process.exec runs it                           *)
(***************************************************************************)
\* the ways the subprocess can end while its kill timer has not fired.
\* bytes is the size of its standard output
ExitOutcomes ==
    UNION {{[tag |-> "success", event |-> "exit", code |-> 0, signal |-> "", stdout |-> o,
             stderr |-> << >>, bytes |-> b] : b \in {Len(o), MaxBuffer}}
           : o \in StdoutSamples}
    \cup
    {[tag |-> "maxBuffer", event |-> "exit", code |-> 0, signal |-> "", stdout |-> OutOk,
      stderr |-> << >>, bytes |-> MaxBuffer + 1],
     [tag |-> "curlError", event |-> "exit", code |-> 7, signal |-> "", stdout |-> << >>,
      stderr |-> ErrCurl, bytes |-> 0],
     [tag |-> "toolMissing", event |-> "exit", code |-> 127, signal |-> "", stdout |-> << >>,
      stderr |-> ErrBash, bytes |-> 0],
     [tag |-> "toolMissing", event |-> "exit", code |-> 127, signal |-> "", stdout |-> << >>,
      stderr |-> ErrDash, bytes |-> 0],
     [tag |-> "killedExternally", event |-> "exit", code |-> -1, signal |-> "SIGTERM",
      stdout |-> << >>, stderr |-> << >>, bytes |-> 0],
     [tag |-> "spawnError", event |-> "error", code |-> -1, signal |-> "", stdout |-> << >>,
      stderr |-> << >>, bytes |-> 0]}

\* the end of a subprocess whose request the server answered otherwise
OtherAnswers ==
    {[tag |-> "success", event |-> "exit", code |-> 0, signal |-> "", stdout |-> OutNotFound,
      stderr |-> << >>, bytes |-> Len(OutNotFound)]}

\* the end of a subprocess that the kill timer has sent SIGTERM
TimeoutOutcome ==
    [tag |-> "timeout", event |-> "exit", code |-> -1, signal |-> "SIGTERM", stdout |-> << >>,
     stderr |-> << >>, bytes |-> 0]

\* exec taking every exit without a signal for a success
ExecResultIgnoringExitCode(o, curlCommand) ==
    IF o.signal = ""
    THEN [error |-> FALSE, signal |-> "", message |-> << >>,
          stdout |-> o.stdout, stderr |-> o.stderr]
    ELSE [error |-> TRUE, signal |-> o.signal,
          message |-> S_commandFailed \o curlCommand \o <<"\n">> \o o.stderr,
          stdout |-> o.stdout, stderr |-> o.stderr]

\* the (error, stdout, stderr) that exec hands its callback
ExecResult(o, curlCommand) ==
    IF o.event = "error"
    THEN [error |-> TRUE, signal |-> "", message |-> S_spawnFailed,
          stdout |-> << >>, stderr |-> << >>]
    ELSE IF o.bytes > MaxBuffer
    THEN [error |-> TRUE, signal |-> "", message |-> S_maxBuffer,
          stdout |-> o.stdout, stderr |-> o.stderr]
    ELSE IF o.code = 0 /\ o.signal = ""
    THEN [error |-> FALSE, signal |-> "", message |-> << >>,
          stdout |-> o.stdout, stderr |-> o.stderr]
    ELSE [error |-> TRUE, signal |-> o.signal,
          message |-> S_commandFailed \o curlCommand \o <<"\n">> \o o.stderr,
          stdout |-> o.stdout, stderr |-> o.stderr]

\* the rejection of lines 213-229: the kind of failure and the message of the
\* Error the promise is rejected with
Classify(r, timeout) ==
    IF r.signal = "SIGTERM"
    THEN [kind |-> "Timeout",
          message |-> S_timeoutAfter \o IntToText(timeout) \o S_seconds]
    ELSE IF Includes(r.message, S_cmdNotFound) \/ Includes(r.message, S_notFound)
    THEN [kind |-> "ToolNotFound", message |-> S_installCurl]
    ELSE [kind |-> "ExecutionError", message |-> r.message]

\* what lines 232 and 690 make of each standard output exec can hand over
\* the status code and the text of line 690 for a parsed result
Formatted(result) ==
    [statusCode |-> result.statusCode, responseText |-> formatHttpResponse(result)]

Responses ==
    [o \in {x.stdout : x \in ExitOutcomes \cup OtherAnswers \cup {TimeoutOutcome}} |->
       Formatted(parseCurlResponse(o, << >>))]

\* an expired timer that leaves the subprocess running
TimerFireWithoutKill(e) ==
    /\ pc[e] = "running"
    /\ child[e].state = "running"
    /\ child[e].timer = "armed"
    /\ child' = [child EXCEPT ![e].timer = "fired"]
    /\ UNCHANGED <<pc, args, loc, promise, messages, log, now, files, untitled,
                   executionTimes, calls>>
    /\ UNCHANGED <<lastSuccess, response, unit>>

\* the kill timer of exec expires: the subprocess is sent SIGTERM
TimerFire(e) ==
    /\ pc[e] = "running"
    /\ child[e].state = "running"
    /\ child[e].timer = "armed"
    /\ child' = [child EXCEPT ![e].state = "killed", ![e].timer = "fired"]
    /\ UNCHANGED <<pc, args, loc, promise, messages, log, now, files, untitled,
                   executionTimes, calls>>
    /\ UNCHANGED <<lastSuccess, response, unit>>

\* the timer stopped before the output is parsed
RunStepsTimerStoppedFirst == <<"exit", "timerStop", "parseResponse", "resolve", "format">>

\* the steps of lines 232-233 and 684-690 once the subprocess has ended well
RunSteps == <<"exit", "parseResponse", "resolve", "timerStop", "format">>

\* every response sent to the file
DestinationAlwaysFile(saveFile) == "writeFile"

\* the branch of line 695
Destination(saveFile) == IF saveFile THEN "writeFile" ELSE "openPreview"

\* the subprocess has ended: the callback of exec (lines 212-234) and the
\* code that awaited the promise, lines 684-702 or 684-719 when it resolves
\* and the two catch blocks when it rejects
ExecCallbackWith(e, outcomes) ==
    /\ pc[e] = "running"
    /\ \E o \in (IF child[e].state = "killed" THEN {TimeoutOutcome} ELSE outcomes),
          l \in {loc[e]} :
         \E r \in {ExecResult(o, l.curlCommand)} :
           \E rej \in {Classify(r, l.timeout)}, result \in {Responses[r.stdout]} :
             /\ child' = [child EXCEPT ![e] = [state |-> "closed", timer |-> @.timer,
                                               outcome |-> o.tag]]
             /\ IF r.error
                THEN /\ promise' = [promise EXCEPT ![e] =
                                      [state |-> "rejected", settled |-> @.settled + 1,
                                       kind |-> rej.kind, message |-> rej.message]]
                     /\ Fail(e, "failed-run", rej.message, <<"exit", "reject">>)
                     /\ UNCHANGED <<args, now, files, untitled, executionTimes, calls>>
                ELSE /\ promise' = [promise EXCEPT ![e] =
                                      [state |-> "resolved", settled |-> @.settled + 1,
                                       kind |-> "none", message |-> << >>]]
                     /\ loc' = [loc EXCEPT ![e] =
                                  [NoLocals EXCEPT
                                     !.responsePath = l.responsePath,
                                     !.saveFile = l.saveFile,
                                     !.executionTimeSeconds = ToFixed2(now - l.startTime),
                                     !.responseText = result.responseText,
                                     !.statusCode = result.statusCode]]
                     /\ log' = [log EXCEPT ![e] = @ \o RunSteps]
                     /\ pc' = [pc EXCEPT ![e] = Destination(l.saveFile)]
                     /\ UNCHANGED <<args, messages, now, files, untitled, executionTimes,
                                    calls>>
    /\ UNCHANGED <<lastSuccess, response, unit>>

\* the callback of exec for the ways the subprocess ends
ExecCallback(e) == ExecCallbackWith(e, ExitOutcomes)

\* time passes while a request is being timed: Date.now() is read at lines
\* 678 and 684 and nowhere else
Tick ==
    /\ now + 8 <= MaxTime
    /\ \E e \in Procs : pc[e] = "running"
    /\ now' = now + 8
    /\ UNCHANGED <<pc, args, loc, child, promise, messages, log, files, untitled,
                   executionTimes, calls>>
    /\ UNCHANGED <<lastSuccess, response, unit>>

(***************************************************************************)
(* The output stage of executeHttpRequestFromFile (lines 695-781)          *)
(***************************************************************************)
Succeed(e, msg) ==
    /\ pc' = [pc EXCEPT ![e] = "done"]
    /\ messages' = [messages EXCEPT ![e] = Append(@, msg)]
    /\ log' = [log EXCEPT ![e] = Append(@, "succeeded")]
    /\ UNCHANGED loc

\* workspace.fs.writeFile(responseUri, ...) (line 702) is carried out by the
\* file system, or fails
FsWrite(e) ==
    /\ pc[e] = "writeFile"
    /\ \E ok \in BOOLEAN :
         IF ok
         THEN /\ files' = MapSet(files, loc[e].responsePath, loc[e].responseText)
              /\ pc' = [pc EXCEPT ![e] = "written"]
              /\ log' = [log EXCEPT ![e] = Append(@, "writeFile")]
              /\ UNCHANGED <<loc, messages>>
         ELSE /\ Fail(e, "failed-write", S_writeFailed, << >>)
              /\ UNCHANGED files
    /\ UNCHANGED <<args, child, promise, now, untitled, executionTimes, calls>>
    /\ UNCHANGED <<lastSuccess, response, unit>>

\* the await of writeFile returns: lines 704-710
AfterWriteFile(e) ==
    /\ pc[e] = "written"
    /\ executionTimes' = MapSet(executionTimes, FileUri(loc[e].responsePath),
                                loc[e].executionTimeSeconds)
    /\ log' = [log EXCEPT ![e] = Append(@, "record")]
    /\ pc' = [pc EXCEPT ![e] = "openSaved"]
    /\ UNCHANGED <<args, loc, child, promise, messages, now, files, untitled, calls>>
    /\ UNCHANGED <<lastSuccess, response, unit>>

\* openTextDocument(responseUri) settles: lines 710-756
OpenSavedDone(e) ==
    /\ pc[e] = "openSaved"
    /\ \E ok \in BOOLEAN :
         IF ok
         THEN /\ pc' = [pc EXCEPT ![e] = "openCustom"]
              /\ UNCHANGED <<loc, messages, log>>
         ELSE Fail(e, "failed-open-response", S_openFailed, << >>)
    /\ UNCHANGED <<args, child, promise, now, files, untitled, executionTimes, calls>>
    /\ UNCHANGED <<lastSuccess, response, unit>>

\* openTextDocument(customUri) settles: line 757, or the catch of line 761
OpenCustomDone(e) ==
    /\ pc[e] = "openCustom"
    /\ \E ok \in BOOLEAN :
         pc' = [pc EXCEPT ![e] = IF ok THEN "showCustom" ELSE "showFallback"]
    /\ UNCHANGED <<args, loc, child, promise, messages, log, now, files, untitled,
                   executionTimes, calls>>
    /\ UNCHANGED <<lastSuccess, response, unit>>

\* showTextDocument(customDoc) settles: lines 778-781, or the catch of line 761
ShowCustomDone(e) ==
    /\ pc[e] = "showCustom"
    /\ \E ok \in BOOLEAN :
         IF ok
         THEN /\ Succeed(e, Info("HTTP request executed successfully. Status: ",
                                 loc[e].statusCode, loc[e].executionTimeSeconds))
              /\ lastSuccess' = MapSet(lastSuccess, FileUri(loc[e].responsePath),
                                       loc[e].executionTimeSeconds)
         ELSE /\ pc' = [pc EXCEPT ![e] = "showFallback"]
              /\ UNCHANGED <<loc, messages, log, lastSuccess>>
    /\ UNCHANGED <<args, child, promise, now, files, untitled, executionTimes, calls>>
    /\ UNCHANGED <<response, unit>>

\* showTextDocument(responseDoc) of the fallback settles: lines 767-781 with
\* updateTabTitleWithExecutionTime (line 513)
ShowFallbackDone(e) ==
    /\ pc[e] = "showFallback"
    /\ \E ok \in BOOLEAN :
         IF ok
         THEN /\ executionTimes' = MapSet(executionTimes, FileUri(loc[e].responsePath),
                                          loc[e].executionTimeSeconds)
              /\ pc' = [pc EXCEPT ![e] = "done"]
              /\ messages' = [messages EXCEPT ![e] =
                                Append(@, Info("HTTP request executed successfully. Status: ",
                                               loc[e].statusCode, loc[e].executionTimeSeconds))]
              /\ log' = [log EXCEPT ![e] = @ \o <<"record", "succeeded">>]
              /\ lastSuccess' = MapSet(lastSuccess, FileUri(loc[e].responsePath),
                                       loc[e].executionTimeSeconds)
              /\ UNCHANGED loc
         ELSE /\ Fail(e, "failed-show", S_showFailed, << >>)
              /\ UNCHANGED <<executionTimes, lastSuccess>>
    /\ UNCHANGED <<args, child, promise, now, files, untitled, calls>>
    /\ UNCHANGED <<response, unit>>

\* openTextDocument({language, content}) settles: lines 716-772
OpenPreviewDone(e) ==
    /\ pc[e] = "openPreview"
    /\ \E ok \in BOOLEAN :
         IF ok
         THEN /\ untitled' = Append(untitled, loc[e].responseText)
              /\ executionTimes' = MapSet(executionTimes, UntitledUri(Len(untitled) + 1),
                                          loc[e].executionTimeSeconds)
              /\ log' = [log EXCEPT ![e] = @ \o <<"preview", "record">>]
              /\ pc' = [pc EXCEPT ![e] = "showPreview"]
              /\ UNCHANGED <<loc, messages>>
         ELSE /\ Fail(e, "failed-open-response", S_openFailed, << >>)
              /\ UNCHANGED <<untitled, executionTimes>>
    /\ UNCHANGED <<args, child, promise, now, files, calls>>
    /\ UNCHANGED <<lastSuccess, response, unit>>

\* showTextDocument(responseDoc) of the preview settles: lines 778-781
ShowPreviewDone(e) ==
    /\ pc[e] = "showPreview"
    /\ \E ok \in BOOLEAN :
         IF ok
         THEN Succeed(e, Info("HTTP request executed successfully. Status: - Preview mode",
                              loc[e].statusCode, loc[e].executionTimeSeconds))
         ELSE Fail(e, "failed-show", S_showFailed, << >>)
    /\ UNCHANGED <<args, child, promise, now, files, untitled, executionTimes, calls>>
    /\ UNCHANGED <<lastSuccess, response, unit>>

\* the promise of executeHttpRequestFromFile has resolved and its caller goes
\* on: the call's record is dropped
Return(e) ==
    /\ pc[e] = "done"
    /\ pc' = [pc EXCEPT ![e] = "idle"]
    /\ args' = [args EXCEPT ![e] = NoCall]
    /\ loc' = [loc EXCEPT ![e] = NoLocals]
    /\ child' = [child EXCEPT ![e] = NoChild]
    /\ promise' = [promise EXCEPT ![e] = NoPromise]
    /\ messages' = [messages EXCEPT ![e] = << >>]
    /\ log' = [log EXCEPT ![e] = << >>]
    /\ UNCHANGED <<now, files, untitled, executionTimes, calls>>
    /\ UNCHANGED <<lastSuccess, response, unit>>

\* the settling of the promises of the editor that a call awaits
Settle(e) ==
    \/ OpenRequestDone(e)
    \/ FsWrite(e)
    \/ AfterWriteFile(e)
    \/ OpenSavedDone(e)
    \/ OpenCustomDone(e)
    \/ ShowCustomDone(e)
    \/ ShowFallbackDone(e)
    \/ OpenPreviewDone(e)
    \/ ShowPreviewDone(e)
    \/ Return(e)

Step(e) ==
    \/ Call(e)
    \/ OpenRequestDone(e)
    \/ TimerFire(e)
    \/ ExecCallback(e)
    \/ FsWrite(e)
    \/ AfterWriteFile(e)
    \/ OpenSavedDone(e)
    \/ OpenCustomDone(e)
    \/ ShowCustomDone(e)
    \/ ShowFallbackDone(e)
    \/ OpenPreviewDone(e)
    \/ ShowPreviewDone(e)
    \/ Return(e)

Next == Tick \/ \E e \in Procs : Step(e)

Spec == Init /\ [][Next]_vars

\* the steps when the server may answer one request in two ways
RaceNext == Next \/ \E e \in Procs : ExecCallbackWith(e, OtherAnswers)

RaceSpec == Init /\ [][RaceNext]_vars

\* the steps of the first MaxFairCalls calls
FairNext == Next /\ calls' <= MaxFairCalls

\* the event loop runs every continuation that is ready, and the subprocess
\* ends or its kill timer fires
FairSpec ==
    /\ Init
    /\ [][FairNext]_vars
    /\ \A e \in Procs : WF_vars(Settle(e))
    /\ \A e \in Procs : WF_vars(TimerFire(e) \/ ExecCallback(e))

(***************************************************************************)
(* parseCurlResponse by itself, over the outputs the transfer tool prints  *)
(***************************************************************************)
\* the status lines of the sample outputs (none, with and without a phrase, with
\* a code that getStatusText does not know, verbose)
StatusLineSamples ==
    {<< >>,
     <<"H", "T", "T", "P", "/", "1", ".", "1", " ", "2", "0", "0", " ", "O", "K">>,
     <<"H", "T", "T", "P", "/", "1", ".", "1", " ", "4", "0", "4", " ", "N", "o", "t", " ",
       "F", "o", "u", "n", "d">>,
     <<"H", "T", "T", "P", "/", "2", " ", "3", "0", "1">>,
     <<"H", "T", "T", "P", "/", "1", ".", "1", " ", "3", "0", "2", " ", "F", "o", "u", "n",
       "d">>,
     <<"<", " ", "H", "T", "T", "P", "/", "1", ".", "1", " ", "5", "0", "0", " ", "O", "o",
       "p", "s">>}

\* their header lines
HeaderSamples ==
    {<< >>,
     <<"C", "o", "n", "t", "e", "n", "t", "-", "T", "y", "p", "e", ":", " ", "t", "e", "x",
       "t", "/", "p", "l", "a", "i", "n">>}

\* their line ends
EolSamples ==
    {<<"\r", "\n">>,
     <<"\n">>}

\* their bodies (the last one a text the server chose so that markers nest)
BodySamples ==
    {<< >>,
     <<"{", "\"", "a", "\"", ":", "1", "}">>,
     <<"5", "0", "3", " ", "l", "a", "t", "e", "r">>,
     <<"H", "T", "T", "P", "S", "T", "A", "T", "U", "S", ":",
       "H", "T", "T", "P", "S", "T", "A", "T", "U", "S", ":",
       "H", "T", "T", "P", "S", "T", "A", "T", "U", "S", ":",
       "1", "2", "3", "1", "2", "3", "1", "2", "3">>}

\* what -w "\\nHTTPSTATUS:%{http_code}" adds: 000 when no HTTP response was received
MarkerSamples ==
    {<< >>,
     <<"H", "T", "T", "P", "S", "T", "A", "T", "U", "S", ":", "0", "0", "0">>,
     <<"H", "T", "T", "P", "S", "T", "A", "T", "U", "S", ":", "2", "0", "0">>,
     <<"H", "T", "T", "P", "S", "T", "A", "T", "U", "S", ":", "3", "0", "2">>,
     <<"H", "T", "T", "P", "S", "T", "A", "T", "U", "S", ":", "4", "0", "4">>}

\* the output of curl -i -s -S -w "\nHTTPSTATUS:%{http_code}"
Assemble(status, header, eol, body, marker) ==
    (IF status = << >> THEN << >>
     ELSE status \o eol \o (IF header = << >> THEN << >> ELSE header \o eol) \o eol)
    \o body
    \o (IF marker = << >> THEN << >> ELSE <<"\n">> \o marker)

\* the interim blocks that precede the block of the final response
InterimSamples ==
    {<<"H", "T", "T", "P", "/", "1", ".", "1", " ", "1", "0", "0", " ", "C", "o", "n", "t",
       "i", "n", "u", "e">>}

\* the output when the server answered with an interim block first
AssembleAfter(interim, status, header, eol, body, marker) ==
    interim \o eol \o eol \o Assemble(status, header, eol, body, marker)

RawOutputs ==
    {Assemble(status, header, eol, body, marker) :
       status \in StatusLineSamples, header \in HeaderSamples, eol \in EolSamples,
       body \in BodySamples, marker \in MarkerSamples}
    \cup {AssembleAfter(interim, status, header, eol, body, marker) :
            interim \in InterimSamples,
            status \in {st \in StatusLineSamples : StartsWith(st, S_HTTP)},
            header \in HeaderSamples, eol \in EolSamples,
            body \in BodySamples, marker \in MarkerSamples}

\* the (stdout, stderr) pairs parseCurlResponse is given
RawInputs ==
    {[stdout |-> o, stderr |-> << >>] : o \in RawOutputs}
    \cup {[stdout |-> << >>, stderr |-> o] : o \in RawOutputs}

\* parseCurlResponse(stdout, stderr) is applied to the input
ParseResponse ==
    /\ response.raw # NoRaw
    /\ response.parsed = NotParsed
    /\ response' = [response EXCEPT
                      !.parsed = parseCurlResponse(response.raw.stdout, response.raw.stderr)]
    /\ UNCHANGED <<pc, args, loc, child, promise, messages, log, now, files, untitled,
                   executionTimes, calls, lastSuccess, unit>>

\* an input is handed to parseCurlResponse
ChooseResponse ==
    /\ response.raw = NoRaw
    /\ \E r \in RawInputs \ {NoRaw} : response' = [raw |-> r, parsed |-> NotParsed]
    /\ UNCHANGED <<pc, args, loc, child, promise, messages, log, now, files, untitled,
                   executionTimes, calls, lastSuccess, unit>>

ResponseNext == ChooseResponse \/ ParseResponse

ResponseSpec == Init /\ [][ResponseNext]_vars

(***************************************************************************)
(* The functions by themselves, each over inputs built from samples        *)
(***************************************************************************)
\* the variables a call of a function by itself leaves alone
callVars == <<pc, args, loc, child, promise, messages, log, now, files, untitled,
              executionTimes, calls, lastSuccess, response>>

\* fn is given input
Given(fn, input) == [fn |-> fn, input |-> input, output |-> << >>, done |-> FALSE]

\* the url, method and body members of the structured request samples
\* (Undefined: no such member)
UrlValues ==
    {Undefined, Str(<< >>), [t |-> "num", v |-> <<"5">>],
     Str(<<"h", "t", "t", "p", "s", ":", "/", "/", "a", ".", "b", "/", "c">>)}

MethodValues ==
    {Undefined, Str(<< >>), [t |-> "null", v |-> << >>], Str(<<"P", "O", "S", "T">>)}

BodyValues ==
    {Undefined,
     Str(<<"s", "e", "e", " ", "h", "t", "t", "p", ":", "/", "/", "x", ".", "y", "/",
           "z">>)}

\* the text of a structured request with these members
JsonRequest(url, method, body) ==
    JsonStringify([t |-> "obj",
                   v |-> (IF url = Undefined THEN << >> ELSE <<<<<<"u", "r", "l">>, url>>>>)
                         \o (IF method = Undefined THEN << >>
                             ELSE <<<<<<"m", "e", "t", "h", "o", "d">>, method>>>>)
                         \o (IF body = Undefined THEN << >>
                             ELSE <<<<<<"b", "o", "d", "y">>, body>>>>)])

\* how a command sample starts
CommandPrefixes ==
    {<< >>,
     <<"c", "u", "r", "l", " ">>}

\* its options: none, a method, a proxy, a header, a body
CommandOptions ==
    {<< >>,
     <<"-", "X", " ", "p", "o", "s", "t", " ">>,
     <<"-", "x", " ", "p", "r", "o", "x", "y", " ">>,
     <<"-", "H", " ", "'", "A", "c", "c", "e", "p", "t", ":", " ", "a", "/", "b", "'",
       " ">>,
     <<"-", "d", " ", "'", "{", "\"", "u", "\"", ":", "1", "}", "'", " ">>}

PlainOptions == {o \in CommandOptions : MethodMatch(o) = Null}

\* the quoted urls of the command samples: what the file holds and the url
\* the shell hands to the tool
QuotedUrls ==
    {[text |-> <<"\"", "h", "t", "t", "p", "s", ":", "/", "/", "a", ".", "b", "/", "c",
                 "\"">>,
      url |-> <<"h", "t", "t", "p", "s", ":", "/", "/", "a", ".", "b", "/", "c">>],
     [text |-> <<"'", "h", "t", "t", "p", ":", "/", "/", "a", ".", "b", "/", "c", "?",
                 "f", "=", "{", "\"", "x", "\"", ":", "1", "}", "'">>,
      url |-> <<"h", "t", "t", "p", ":", "/", "/", "a", ".", "b", "/", "c", "?", "f",
                "=", "{", "\"", "x", "\"", ":", "1", "}">>]}

\* the last word of a command sample: a quoted url, a bare one, another
\* scheme, nothing
CommandUrls ==
    {q.text : q \in QuotedUrls}
    \cup {<< >>,
          <<"h", "t", "t", "p", "s", ":", "/", "/", "a", ".", "b", "/", "c">>,
          <<"f", "t", "p", ":", "/", "/", "a", ".", "b", "/", "c">>}

\* white space around the text of a request file
Margins == {<< >>, <<" ", "\n">>}

RequestTexts ==
    {m \o JsonRequest(url, method, body) \o m :
       m \in Margins, url \in UrlValues, method \in MethodValues, body \in BodyValues}
    \cup {m \o p \o o \o u \o m :
            m \in Margins, p \in CommandPrefixes, o \in CommandOptions, u \in CommandUrls}

\* a text is handed to parseHttpRequest
ChooseRequest ==
    /\ unit = NoUnit
    /\ \E content \in RequestTexts : unit' = Given("parseHttpRequest", content)
    /\ UNCHANGED callVars

\* parseHttpRequest(content) returns
ParseRequest ==
    /\ unit.fn = "parseHttpRequest"
    /\ ~unit.done
    /\ unit' = [unit EXCEPT !.output = parseHttpRequest(unit.input), !.done = TRUE]
    /\ UNCHANGED callVars

RequestNext == ChooseRequest \/ ParseRequest

RequestSpec == Init /\ [][RequestNext]_vars

\* the lines of the document samples: a heading, "##" without a blank after
\* it, a command, an empty line
LineSamples ==
    {<< >>,
     <<"#", "#", " ", "A">>,
     <<"#", "#", "B">>,
     <<"c", "u", "r", "l", " ", "x">>}

\* at most MaxLines lines make a document sample
MaxLines == 3

LinesUpTo(n) == UNION {[1..k -> LineSamples] : k \in 1..n}

\* the documents parseRequestSections is given, with either line end
Documents == {[lines |-> ls, eol |-> eol] : ls \in LinesUpTo(MaxLines), eol \in EolSamples}

\* a document is handed to parseRequestSections
ChooseDocument ==
    /\ unit = NoUnit
    /\ \E document \in Documents : unit' = Given("parseRequestSections", document)
    /\ UNCHANGED callVars

\* parseRequestSections(document) returns
ParseSections ==
    /\ unit.fn = "parseRequestSections"
    /\ ~unit.done
    /\ unit' = [unit EXCEPT !.output = parseRequestSections(unit.input), !.done = TRUE]
    /\ UNCHANGED callVars

SectionsNext == ChooseDocument \/ ParseSections

SectionsSpec == Init /\ [][SectionsNext]_vars

\* the bodies formatResponseBody is given: the text, whether it is in braces
\* or brackets, whether JSON.parse reads it, whether it is in angle brackets,
\* and whether the nesting depth of its tags falls below zero
BodyTexts ==
    {[text |-> <<"{", "\"", "a", "\"", ":", "1", "}">>, bracketed |-> TRUE, json |-> TRUE,
      angled |-> FALSE, belowZero |-> FALSE],
     [text |-> <<"[", "1", ",", "{", "\"", "b", "\"", ":", "[", "]", "}", "]">>, bracketed |-> TRUE, json |-> TRUE,
      angled |-> FALSE, belowZero |-> FALSE],
     [text |-> <<"5">>, bracketed |-> FALSE, json |-> TRUE,
      angled |-> FALSE, belowZero |-> FALSE],
     [text |-> <<"{", "\"", "a", "\"", ":", "}">>, bracketed |-> TRUE, json |-> FALSE,
      angled |-> FALSE, belowZero |-> FALSE],
     [text |-> <<"<", "a", ">", "<", "b", ">", "x", "<", "/", "b", ">", "<", "/", "a",
                 ">">>,
      bracketed |-> FALSE, json |-> FALSE, angled |-> TRUE, belowZero |-> FALSE],
     [text |-> <<"<", "a", ">", " ", "<", "b", ">", "<", "c", ">", "x", "<", "/", "c",
                 ">", "<", "/", "b", ">", "\n", "<", "/", "a", ">">>,
      bracketed |-> FALSE, json |-> FALSE, angled |-> TRUE, belowZero |-> FALSE],
     [text |-> <<"<", "a", ">", "<", "/", "a", ">">>, bracketed |-> FALSE, json |-> FALSE,
      angled |-> TRUE, belowZero |-> TRUE],
     [text |-> <<"<", "a", ">", "<", "b", "/", ">", "<", "c", "/", ">", "<", "/", "a",
                 ">">>,
      bracketed |-> FALSE, json |-> FALSE, angled |-> TRUE, belowZero |-> FALSE],
     [text |-> <<"a", " ", "b">>, bracketed |-> FALSE, json |-> FALSE,
      angled |-> FALSE, belowZero |-> FALSE],
     [text |-> << >>, bracketed |-> FALSE, json |-> FALSE, angled |-> FALSE,
      belowZero |-> FALSE]}

\* the Content-Type values: none, JSON, XML, neither
ContentTypes ==
    {Null,
     <<"a", "p", "p", "l", "i", "c", "a", "t", "i", "o", "n", "/", "j", "s", "o", "n",
       ";", " ", "c", "h", "a", "r", "s", "e", "t", "=", "u", "t", "f", "-", "8">>,
     <<"t", "e", "x", "t", "/", "x", "m", "l">>,
     <<"t", "e", "x", "t", "/", "p", "l", "a", "i", "n">>}

\* a body and a content type are handed to formatResponseBody
ChooseBody ==
    /\ unit = NoUnit
    /\ \E b \in BodyTexts, m \in Margins, contentType \in ContentTypes :
         unit' = Given("formatResponseBody",
                       [body |-> m \o b.text \o m, contentType |-> contentType])
    /\ UNCHANGED callVars

\* formatResponseBody(body, contentType) returns
FormatBody ==
    /\ unit.fn \in {"formatResponseBody", "formatResponseBody again"}
    /\ ~unit.done
    /\ unit' = [unit EXCEPT !.output = formatResponseBody(unit.input.body,
                                                          unit.input.contentType),
                            !.done = TRUE]
    /\ UNCHANGED callVars

\* what formatResponseBody returned is handed to it again, with the same
\* content type
FormatAgain ==
    /\ unit.fn = "formatResponseBody"
    /\ unit.done
    /\ unit' = Given("formatResponseBody again",
                     [body |-> unit.output, contentType |-> unit.input.contentType])
    /\ UNCHANGED callVars

FormatNext == ChooseBody \/ FormatBody \/ FormatAgain

FormatSpec == Init /\ [][FormatNext]_vars

\* the shell that child_process.exec hands the command to (sh -c): the
\* characters a backslash escapes inside double quotes, the characters that
\* make "$" start an expansion, and the operators that end a command
DoubleQuoteEscapes == {"$", "\"", "\\"}

ExpansionStarts == WordChars \cup {"{", "("}

ShellOperators == {";", "|", "&", "<", ">", "(", ")"}

\* the characters that end a run of plain characters outside quotes
PlainStops == Spaces \cup Quotes \cup ShellOperators \cup {"\\", "$"}

\* the word of the command s that starts at position i, read from there on:
\* mode is the quoting in force and word what has been read of it.  What an
\* expansion yields stands in the word as one element that is no character;
\* ok is FALSE for an unterminated quote; next is the position after the
\* word.  (No sample holds a grave accent, so command substitution by grave
\* accents has no case here.)
RECURSIVE ShellWord(_, _, _, _)
ShellWord(s, i, mode, word) ==
    IF i > Len(s) THEN [ok |-> mode = "plain", word |-> word, next |-> i]
    ELSE IF mode = "single"
    THEN ShellWord(s, FirstIn(s, {"'"}, i) + 1,
                   IF FirstIn(s, {"'"}, i) > Len(s) THEN "single" ELSE "plain",
                   word \o Sub(s, i, FirstIn(s, {"'"}, i) - 1))
    ELSE IF s[i] = "\\"
    THEN IF i < Len(s) /\ s[i + 1] = "\n" THEN ShellWord(s, i + 2, mode, word)
         ELSE IF i = Len(s) \/ (mode = "double" /\ s[i + 1] \notin DoubleQuoteEscapes)
         THEN ShellWord(s, i + 1, mode, Append(word, "\\"))
         ELSE ShellWord(s, i + 2, mode, Append(word, s[i + 1]))
    ELSE IF s[i] = "$" /\ i < Len(s) /\ s[i + 1] \in ExpansionStarts
    THEN ShellWord(s, i + 1, mode, Append(word, "<expansion>"))
    ELSE IF mode = "double"
    THEN IF s[i] = "\"" THEN ShellWord(s, i + 1, "plain", word)
         ELSE ShellWord(s, FirstIn(s, DoubleQuoteEscapes, i + 1), "double",
                        word \o Sub(s, i, FirstIn(s, DoubleQuoteEscapes, i + 1) - 1))
    ELSE IF s[i] \in Quotes
    THEN ShellWord(s, i + 1, IF s[i] = "'" THEN "single" ELSE "double", word)
    ELSE IF s[i] \in Spaces \cup ShellOperators
    THEN [ok |-> TRUE, word |-> word, next |-> i]
    ELSE ShellWord(s, FirstIn(s, PlainStops, i + 1), "plain",
                   word \o Sub(s, i, FirstIn(s, PlainStops, i + 1) - 1))

\* the words sh splits the command s into from position i on; an operator
\* stands as a word of its own
RECURSIVE ShellWordsFrom(_, _)
ShellAfter(s, w) ==
    [ok |-> w.ok /\ ShellWordsFrom(s, w.next).ok,
     words |-> <<w.word>> \o ShellWordsFrom(s, w.next).words]

ShellWordsFrom(s, i) ==
    IF i > Len(s) THEN [ok |-> TRUE, words |-> << >>]
    ELSE IF s[i] \in Spaces THEN ShellWordsFrom(s, FirstNotIn(s, Spaces, i))
    ELSE IF s[i] \in ShellOperators
    THEN ShellAfter(s, [ok |-> TRUE, word |-> <<"<operator>">>, next |-> i + 1])
    ELSE ShellAfter(s, ShellWord(s, i, "plain", << >>))

ShellWords(command) == ShellWordsFrom(command, 1)

\* the requests buildCurlCommand is given: their methods, headers, bodies
\* and urls
BuildMethods == {S_GET, <<"P", "O", "S", "T">>}

BuildHeaders ==
    {<< >>,
     <<<<<<"K">>, Str(<<"v", " ", "w">>)>>>>,
     <<<<<<"K">>, Str(<<"v", "\\">>)>>>>}

BuildBodies ==
    {Undefined,
     Str(<<"i", "t", "'", "s">>),
     Str(<<"a", " ", "\"", "b", "\"", " ", "\\", " ", "$", "x", " ", "y">>),
     [t |-> "obj", v |-> <<<<<<"a">>, Str(<<"b", " ", "c">>)>>>>]}

BuildUrls ==
    {<<"h", "t", "t", "p", "s", ":", "/", "/", "a", ".", "b", "/", "c">>,
     <<"h", "t", "t", "p", "s", ":", "/", "/", "a", ".", "b", "/", "c", "?", "$", "t",
       "o", "p", "=", "5">>,
     <<"h", "t", "t", "p", "s", ":", "/", "/", "a", ".", "b", "/", "c", "?", "q", "=",
       "\"", "x", "\"">>,
     <<"h", "t", "t", "p", "s", ":", "/", "/", "a", ".", "b", "/", "c", " ", "d">>}

Requests ==
    {Config(method, Str(url), [t |-> "obj", v |-> headers], body) :
       method \in BuildMethods, url \in BuildUrls, headers \in BuildHeaders,
       body \in BuildBodies}

\* a request is handed to buildCurlCommand
ChooseConfig ==
    /\ unit = NoUnit
    /\ \E config \in Requests : unit' = Given("buildCurlCommand", config)
    /\ UNCHANGED callVars

\* buildCurlCommand(config) returns
BuildCommand ==
    /\ unit.fn = "buildCurlCommand"
    /\ ~unit.done
    /\ unit' = [unit EXCEPT !.output = IF BuildThrows(unit.input) THEN Thrown
                                       ELSE buildCurlCommand(unit.input),
                            !.done = TRUE]
    /\ UNCHANGED callVars

\* child_process.exec hands the command to the shell, which splits it
ExecSplits ==
    /\ unit.fn = "buildCurlCommand"
    /\ unit.done
    /\ unit.output # Thrown
    /\ unit' = [fn |-> "exec", input |-> [config |-> unit.input, command |-> unit.output],
                output |-> ShellWords(unit.output), done |-> TRUE]
    /\ UNCHANGED callVars

BuildNext == ChooseConfig \/ BuildCommand \/ ExecSplits

BuildSpec == Init /\ [][BuildNext]_vars

\* one argument of a command sample: what the file holds for it and the value
\* the shell hands to the tool for it
Argument(kind, text, value, quoted) ==
    [kind |-> kind, text |-> text, value |-> value, quoted |-> quoted]

\* the arguments of the command samples: the url by itself, bare and quoted;
\* headers, one with a url in its value; a --data-raw and a --data-binary
\* flag, quoted and bare; -d and --data flags, quoted, bare, with a url in the
\* value, with an empty value
Arguments ==
    {Argument("url", <<"h", "t", "t", "p", "s", ":", "/", "/", "a", ".", "b", "/", "c">>,
              <<"h", "t", "t", "p", "s", ":", "/", "/", "a", ".", "b", "/", "c">>, FALSE),
     Argument("url", <<"'", "h", "t", "t", "p", "s", ":", "/", "/", "a", ".", "b", "/", "c",
               "'">>,
              <<"h", "t", "t", "p", "s", ":", "/", "/", "a", ".", "b", "/", "c">>, TRUE),
     Argument("header", <<"-", "H", " ", "'", "R", "e", "f", "e", "r", "e", "r", ":", " ", "h",
               "t", "t", "p", ":", "/", "/", "h", ".", "i", "/", "j", "'">>,
              <<"R", "e", "f", "e", "r", "e", "r", ":", " ", "h", "t", "t", "p", ":",
                "/", "/", "h", ".", "i", "/", "j">>, TRUE),
     Argument("header", <<"-", "-", "h", "e", "a", "d", "e", "r", " ", "\"", "X", ":", " ", "1",
               "\"">>,
              <<"X", ":", " ", "1">>, TRUE),
     Argument("raw", <<"-", "-", "d", "a", "t", "a", "-", "r", "a", "w", " ", "'", "r", "=",
               "1", "'">>,
              <<"r", "=", "1">>, TRUE),
     Argument("raw", <<"-", "-", "d", "a", "t", "a", "-", "b", "i", "n", "a", "r", "y", " ",
               "r", "=", "1">>,
              <<"r", "=", "1">>, FALSE),
     Argument("data", <<"-", "d", " ", "'", "g", "=", "2", "'">>,
              <<"g", "=", "2">>, TRUE),
     Argument("data", <<"-", "d", " ", "g", "=", "2">>,
              <<"g", "=", "2">>, FALSE),
     Argument("data", <<"-", "-", "d", "a", "t", "a", " ", "\"", "s", "e", "e", " ", "h", "t",
               "t", "p", ":", "/", "/", "x", ".", "y", "/", "z", "\"">>,
              <<"s", "e", "e", " ", "h", "t", "t", "p", ":", "/", "/", "x", ".", "y",
                "/", "z">>, TRUE),
     Argument("data", <<"-", "d", " ", "'", "'">>,
              << >>, TRUE),
     Argument("data", <<"-", "d", " ", "\"", "\"">>,
              << >>, TRUE)}

ArgumentKinds == {a.kind : a \in Arguments}

\* the command samples: arguments of different kinds in every order
ArgumentLists ==
    {as \in UNION {[1..n -> Arguments] : n \in 1..Cardinality(ArgumentKinds)} :
       \A i, j \in 1..Len(as) : as[i].kind = as[j].kind => i = j}

\* the text of the command with these arguments
CommandText(as) ==
    S_curl \o <<" ">> \o Join([k \in 1..Len(as) |-> as[k].text], <<" ">>)

\* a command is handed to parseCurlCommand
ChooseCommand ==
    /\ unit = NoUnit
    /\ \E as \in ArgumentLists : unit' = Given("parseCurlCommand", as)
    /\ UNCHANGED callVars

\* parseCurlCommand(curlCommand) returns
ParseCurl ==
    /\ unit.fn = "parseCurlCommand"
    /\ ~unit.done
    /\ unit' = [unit EXCEPT !.output = parseCurlCommand(CommandText(unit.input)),
                            !.done = TRUE]
    /\ UNCHANGED callVars

CommandNext == ChooseCommand \/ ParseCurl

CommandSpec == Init /\ [][CommandNext]_vars

\* the titles of the sections of the request file samples
TitleSamples ==
    {<<"G", "e", "t", " ", "u", "s", "e", "r">>,
     <<"G", "e", "t", "-", "u", "s", "e", "r">>,
     <<"g", "e", "t", " ", "u", "s", "e", "r">>,
     <<"G", "e", "t", "_", "u", "s", "e", "r">>,
     <<"G", "e", "t", "U", "s", "e", "r">>,
     <<"G", "e", "t", " ", "u", "s", "e", "r", " ", "2">>,
     <<"L", "i", "s", "t">>}

\* the paths of the request file samples, one for each extension
RequestPaths ==
    {PathA,
     <<"/", "h", "/", "a", ".", "r", "e", "q", "u", "e", "s", "t">>}

\* a request file of two sections with different titles
TitledFile(path, first, second) ==
    [path |-> path,
     document |->
       [lines |-> <<<<"#", "#", " ">> \o first,
                    <<"c", "u", "r", "l", " ", "h", "t", "t", "p", ":", "/", "/", "h",
                      "/", "a">>,
                    <<"#", "#", " ">> \o second,
                    <<"c", "u", "r", "l", " ", "h", "t", "t", "p", ":", "/", "/", "h",
                      "/", "b">>>>,
        eol |-> <<"\n">>]]

TitledFiles ==
    {TitledFile(path, first, second) :
       path \in RequestPaths,
       first \in TitleSamples, second \in TitleSamples} \
    {TitledFile(path, title, title) : path \in RequestPaths, title \in TitleSamples}

\* the code lenses of a request file, in the order of its sections
LensesOf(file) ==
    [k \in 1..Len(parseRequestSections(file.document)) |->
       CHOOSE c \in CodeLensCalls(file) :
         c.startLine = parseRequestSections(file.document)[k].startLine]

\* a request file is opened in the editor
OpenRequestFile ==
    /\ unit = NoUnit
    /\ \E file \in TitledFiles : unit' = Given("responsePath", file)
    /\ UNCHANGED callVars

\* each code lens of the file is clicked: the response path that lines 629-654
\* compute for its arguments
ComputeResponsePaths ==
    /\ unit.fn = "responsePath"
    /\ ~unit.done
    /\ unit' = [unit EXCEPT
                  !.output = [k \in 1..Len(LensesOf(unit.input)) |->
                                [title |-> LensesOf(unit.input)[k].title,
                                 responsePath |->
                                   ResponsePath(LensesOf(unit.input)[k].file,
                                                LensesOf(unit.input)[k].hasRange,
                                                LensesOf(unit.input)[k].title)]],
                  !.done = TRUE]
    /\ UNCHANGED callVars

PathNext == OpenRequestFile \/ ComputeResponsePaths

PathSpec == Init /\ [][PathNext]_vars

(***************************************************************************)
(* The claims                                                              *)
(***************************************************************************)
Has(s, x) == \E i \in 1..Len(s) : s[i] = x

\* the place of the first x in s, 0 when there is none
Pos(s, x) == IF Has(s, x) THEN Min({i \in 1..Len(s) : s[i] = x}) ELSE 0

Count(s, x) == Cardinality({i \in 1..Len(s) : s[i] = x})

Before(s, x, y) == Has(s, x) /\ Has(s, y) /\ Pos(s, x) < Pos(s, y)

Errors(e) == {i \in 1..Len(messages[e]) : messages[e][i].level = "error"}

\* the request of call e cannot be extracted, parsed or built
RequestFails(e) ==
    /\ args[e] \in Calls
    /\ Stage(Prepared[args[e]], TRUE) \in {"failed-extract", "failed-parse", "failed-build"}

\* the subprocess of call e has ended otherwise than by a successful exit
RunFailed(e) == child[e].outcome \notin {"none", "success"}

\* call e has passed the point where it has a response to put out
InOutputStage(e) ==
    pc[e] \in {"writeFile", "written", "openSaved", "openCustom", "showCustom", "showFallback",
               "openPreview", "showPreview"}

\* C1: a call whose request parse, command build or subprocess run has failed
\* has written no response file, opened no preview document and recorded no
\* execution time; every change of the files, the unsaved documents and the
\* executionTimes map is made by a call whose subprocess has ended well.
C1_NoOutputAfterFailure ==
    /\ [](\A e \in Procs :
            (RequestFails(e) \/ RunFailed(e))
            => /\ ~Has(log[e], "writeFile")
               /\ ~Has(log[e], "preview")
               /\ ~Has(log[e], "record")
               /\ ~InOutputStage(e))
    /\ [][(files' # files \/ untitled' # untitled \/ executionTimes' # executionTimes)
          => \E e \in Procs : /\ pc'[e] # pc[e]
                              /\ InOutputStage(e)
                              /\ child[e].outcome = "success"
                              /\ ~RequestFails(e)]_vars

C1_Witness ==
    \E e \in Procs : /\ pc[e] = "done"
                     /\ child[e].outcome = "curlError"
                     /\ Has(log[e], "failed-run")
                     /\ files = << >>
                     /\ untitled = << >>
                     /\ executionTimes = << >>

\* C2: a subprocess is spawned only after the section extraction (when a
\* line range is given) and parseHttpRequest have succeeded, in that order;
\* when either returns null the call ends with an error message and without
\* a subprocess.
C2_SpawnOnlyAfterParse ==
    \A e \in Procs :
      args[e] \in Calls =>
        LET p == Prepared[args[e]]
        IN  /\ child[e] # NoChild => Has(log[e], "spawn")
            /\ Has(log[e], "spawn")
               => /\ p.extracted
                  /\ ~p.config.null
                  /\ Before(log[e], "parse", "spawn")
                  /\ args[e].hasRange => Before(log[e], "extract", "parse")
            /\ (~p.extracted \/ p.config.null)
               => /\ ~Has(log[e], "spawn")
                  /\ child[e] = NoChild
                  /\ pc[e] \in {"openRequest", "done"}
                  /\ pc[e] = "done" => Errors(e) # {}

C2_Witness ==
    \E e \in Procs : /\ args[e] \in Calls
                     /\ ~Prepared[args[e]].extracted
                     /\ pc[e] = "done"
                     /\ Errors(e) # {}
                     /\ child[e] = NoChild

C4_OneErrorMessage ==
    \A e \in Procs :
      (pc[e] = "done" /\ ~Has(log[e], "succeeded")) => Cardinality(Errors(e)) = 1

\* C5: a successful exit resolves the promise; a failure is rejected as
\* Timeout if and only if the kill timer of the configured timeout fired, as
\* ToolNotFound if and only if the shell reported that curl is missing, and
\* otherwise as ExecutionError with the message of the underlying error.
C5_FailureClassification ==
    \A e \in Procs :
      child[e].state = "closed" =>
        /\ child[e].outcome = "success" <=> promise[e].state = "resolved"
        /\ promise[e].state \in {"resolved", "rejected"}
        /\ promise[e].state = "rejected"
           => /\ promise[e].kind \in {"Timeout", "ToolNotFound", "ExecutionError"}
              /\ promise[e].kind = "Timeout" <=> child[e].timer = "fired"
              /\ promise[e].kind = "ToolNotFound" <=> child[e].outcome = "toolMissing"
              /\ child[e].outcome = "maxBuffer" => promise[e].message = S_maxBuffer

\* C6: the promise of executeHttpRequest settles exactly once; a subprocess
\* whose kill timer fired is terminated and the promise rejected as Timeout;
\* and, the subprocess ending or its timer firing, every call that was
\* started returns to its caller.
C6_SettlesOnceAndReturns ==
    /\ [](\A e \in Procs :
            /\ promise[e].settled <= 1
            /\ child[e].state = "closed"
               => promise[e].settled = 1 /\ promise[e].state \in {"resolved", "rejected"}
            /\ promise[e].state = "pending" <=> pc[e] = "running"
            /\ child[e].timer = "fired" => child[e].state \in {"killed", "closed"}
            /\ (child[e].timer = "fired" /\ child[e].state = "closed")
               => promise[e].state = "rejected" /\ promise[e].kind = "Timeout")
    /\ \A e \in Procs : (pc[e] = "openRequest") ~> (pc[e] = "idle")
    /\ \A e \in Procs : (child[e].state = "killed") ~> (child[e].state = "closed")

C6_Witness ==
    \E e \in Procs : /\ pc[e] = "done"
                     /\ child[e].timer = "fired"
                     /\ child[e].state = "closed"
                     /\ promise[e].kind = "Timeout"
                     /\ promise[e].settled = 1

\* C7: one call spawns at most one subprocess, and a call whose run or
\* parse failed has ended: it goes back to no earlier step.
C7_AtMostOneSpawn ==
    \A e \in Procs :
      /\ Count(log[e], "spawn") <= 1
      /\ (Has(log[e], "failed-run") \/ Has(log[e], "failed-parse")) => pc[e] = "done"

C7_Witness ==
    \E e \in Procs : /\ Has(log[e], "failed-run")
                     /\ Count(log[e], "spawn") = 1
                     /\ pc[e] = "done"

\* some call is between recording a duration under uri and its end
Recording(uri) ==
    \E e \in Procs : /\ pc[e] \in {"openSaved", "openCustom", "showCustom", "showFallback"}
                     /\ FileUri(loc[e].responsePath) = uri

\* C8: the executionTimes map loses no entry, and getExecutionTime of a
\* destination some execution succeeded with returns the duration of the
\* most recent successful execution for that destination.
C8_LastSuccessfulDuration ==
    /\ [](\A uri \in DOMAIN lastSuccess :
            ~Recording(uri) => getExecutionTime(uri) = lastSuccess[uri])
    /\ [][\A uri \in DOMAIN executionTimes : uri \in DOMAIN executionTimes']_vars

\* C9: the save-to-file flag selects the destination. A call that succeeded
\* with the flag set has written the response file at the response path and
\* opened no unsaved document; with the flag clear it has opened an unsaved
\* document and written no file. Every file written is written by a call
\* with the flag set, every unsaved document opened by a call with it clear.
C9_FlagSelectsDestination ==
    /\ [](\A e \in Procs :
            Has(log[e], "succeeded")
            => IF loc[e].saveFile
               THEN /\ Has(log[e], "writeFile")
                    /\ ~Has(log[e], "preview")
                    /\ loc[e].responsePath = Prepared[args[e]].responsePath
                    /\ loc[e].responsePath \in DOMAIN files
               ELSE /\ Has(log[e], "preview")
                    /\ ~Has(log[e], "writeFile"))
    /\ [][/\ (\E e \in Procs : pc[e] = "writeFile" /\ pc'[e] = "written")
             => \E e \in Procs :
                  /\ loc[e].saveFile
                  /\ pc[e] = "writeFile"
                  /\ files' = MapSet(files, loc[e].responsePath, loc[e].responseText)
                  /\ untitled' = untitled
          /\ files' # files => \E e \in Procs : pc[e] = "writeFile" /\ loc[e].saveFile
          /\ untitled' # untitled
             => \E e \in Procs :
                  /\ ~loc[e].saveFile
                  /\ pc[e] = "openPreview"
                  /\ untitled' = Append(untitled, loc[e].responseText)
                  /\ files' = files]_vars

C9_Witness ==
    \E e \in Procs : /\ Has(log[e], "succeeded")
                     /\ ~loc[e].saveFile
                     /\ Has(log[e], "preview")
                     /\ untitled # << >>
                     /\ files = << >>

\* the code of the first HTTPSTATUS:<3 digits> marker of the text
\* parseCurlResponse works on, -1 when there is none
MarkerCode(r) ==
    LET output == ChooseOutput(r.stdout, r.stderr)
        m == MarkerFrom(output, 1)
    IN  IF m = 0 THEN -1
        ELSE ParseInt(Sub(output, m + Len(S_HTTPSTATUS), m + Len(S_HTTPSTATUS) + 2))

\* C10: whenever the output holds an HTTPSTATUS:<3 digits> marker, the
\* statusCode parseCurlResponse returns is the code of the marker, whatever
\* status line the output also holds.
C10_MarkerAlwaysWins ==
    (response.parsed # NotParsed /\ MarkerCode(response.raw) >= 0)
    => response.parsed.statusCode = MarkerCode(response.raw)

\* C11: the body parseCurlResponse returns holds no text of the form
\* HTTPSTATUS: followed by three digits.
C11_NoMarkerInBody ==
    response.parsed # NotParsed => MarkerFrom(response.parsed.body, 1) = 0

\* the status lines a run without -v prints
PlainStatusLines == {st \in StatusLineSamples : StartsWith(st, S_HTTP)}

\* the header mapping of the header line h of the samples
HeadersOfLine(h) ==
    IF h = << >> THEN << >>
    ELSE SetHeader(<< >>, Sub(h, 1, IndexOf(h, <<":">>) - 1),
                   Trim(From(h, IndexOf(h, <<":">>) + 1)))

\* C12: for an output of the shape status line, header lines, blank CRLF
\* line, body, newline and marker, parseCurlResponse returns the code of the
\* marker, exactly the headers of the header lines and the trimmed body.
C12_CanonicalOutputParsed ==
    \A status \in PlainStatusLines, header \in HeaderSamples,
       body \in {b \in BodySamples : MarkerFrom(b, 1) = 0},
       marker \in MarkerSamples \ {<< >>} :
      ( /\ response.parsed # NotParsed
        /\ response.raw.stderr = << >>
        /\ response.raw.stdout = Assemble(status, header, <<"\r", "\n">>, body, marker) )
      => /\ response.parsed.statusCode = ParseInt(From(marker, Len(S_HTTPSTATUS) + 1))
         /\ response.parsed.headers = HeadersOfLine(header)
         /\ response.parsed.body = Trim(body)

\* parseHttpRequest has returned for the text it was given
Parsed == unit.fn = "parseHttpRequest" /\ unit.done

\* C13: parseHttpRequest returns null or a request whose url is a non-empty
\* string, and null for a command that holds no http or https url.
C13_UrlNeverEmpty ==
    Parsed =>
      /\ unit.output.null \/ (unit.output.url.t = "str" /\ unit.output.url.v # << >>)
      /\ \A m \in Margins, p \in CommandPrefixes, o \in CommandOptions,
            u \in {x \in CommandUrls : BareUrlMatch(x) = <<0, 0>>} :
           unit.input = m \o p \o o \o u \o m => unit.output.null

\* C14: for a structured request whose url member is a string,
\* parseHttpRequest returns that url, and the given method or GET when there
\* is no method member.
C14_StructuredUrlAndMethod ==
    \A m \in Margins, url \in {u \in UrlValues : u.t = "str"}, method \in MethodValues,
       body \in BodyValues :
      (Parsed /\ unit.input = m \o JsonRequest(url, method, body) \o m)
      => /\ ~unit.output.null
         /\ unit.output.url = url
         /\ unit.output.method = (IF method = Undefined THEN S_GET ELSE ToText(method))

\* C14 as the code has it: for a structured request whose url member is a
\* non-empty string, parseHttpRequest returns that url, and the given method
\* when it is a non-empty string, GET when the method member is absent, null
\* or empty.
C14_NonEmptyUrlAndMethod ==
    \A m \in Margins, url \in {u \in UrlValues : u.t = "str" /\ u.v # << >>},
       method \in MethodValues, body \in BodyValues :
      (Parsed /\ unit.input = m \o JsonRequest(url, method, body) \o m)
      => /\ ~unit.output.null
         /\ unit.output.url = url
         /\ unit.output.method = (IF method.t = "str" /\ method.v # << >>
                                  THEN method.v ELSE S_GET)

\* a structured request with a url and no method has been parsed
C14_Witness ==
    /\ Parsed
    /\ \E url \in {u \in UrlValues : u.t = "str" /\ u.v # << >>} :
         /\ unit.input = JsonRequest(url, Undefined, Undefined)
         /\ unit.output.url = url
         /\ unit.output.method = S_GET

\* C15: for a command with a quoted http or https url and no -X flag,
\* parseHttpRequest returns the method GET and the quoted url without its
\* quotes.
C15_QuotedUrlDefaultsToGet ==
    \A m \in Margins, p \in CommandPrefixes, o \in PlainOptions, q \in QuotedUrls :
      (Parsed /\ unit.input = m \o p \o o \o q.text \o m)
      => /\ ~unit.output.null
         /\ unit.output.method = S_GET
         /\ unit.output.url = Str(q.url)

\* the sections that hold line l (0-based) of the document
SectionsWith(secs, l) == {k \in 1..Len(secs) : secs[k].startLine <= l /\ l <= secs[k].endLine}

\* C16: for a document with at least one ## heading, every line of the
\* document lies in exactly one section returned by parseRequestSections,
\* each section ends on the line before the next section's title line, and
\* the last section ends on the last line of the document.
C16_SectionsPartition ==
    ( /\ unit.fn = "parseRequestSections"
      /\ unit.done
      /\ \E l \in 1..Len(unit.input.lines) : HeaderTitle(unit.input.lines[l]) # Null )
    => /\ unit.output # << >>
       /\ \A l \in 0..(Len(unit.input.lines) - 1) :
            Cardinality(SectionsWith(unit.output, l)) = 1
       /\ \A k \in 1..(Len(unit.output) - 1) :
            unit.output[k].endLine = unit.output[k + 1].titleLine - 1
       /\ unit.output[Len(unit.output)].endLine = Len(unit.input.lines) - 1

\* formatResponseBody has returned for the sample b with margin m and
\* content type c
Formats(b, m, c) ==
    /\ unit.fn = "formatResponseBody"
    /\ unit.done
    /\ unit.input = [body |-> m \o b.text \o m, contentType |-> c]

\* the content type names JSON, names XML
NamesJson(c) == c # Null /\ Includes(c, S_appjson)

NamesXml(c) == c # Null /\ Includes(c, S_xml)

\* C17: formatResponseBody returns a text and throws nothing; whenever JSON
\* decoding fails, or XML formatting fails (a closing tag taking the depth
\* below zero), or the body is neither JSON nor XML, it returns the body it
\* was given.
C17_FailureReturnsOriginal ==
    \A b \in BodyTexts, m \in Margins, c \in ContentTypes :
      Formats(b, m, c)
      => /\ unit.output # Thrown
         /\ ( \/ ((NamesJson(c) \/ b.bracketed) /\ ~b.json)
              \/ ((NamesXml(c) \/ b.angled) /\ b.belowZero)
              \/ (~b.json /\ ~b.angled) )
            => unit.output = unit.input.body

\* C17 as the code has it: formatResponseBody returns a text and throws
\* nothing; it returns the body it was given whenever neither formatter
\* produced a text, that is JSON decoding was not tried or failed, and XML
\* formatting was not tried or took the depth below zero.
C17_NoFormatterReturnsOriginal ==
    \A b \in BodyTexts, m \in Margins, c \in ContentTypes :
      Formats(b, m, c)
      => /\ unit.output # Thrown
         /\ ( /\ ~((NamesJson(c) \/ b.bracketed) /\ b.json)
              /\ (b.text # << >> => ~((NamesXml(c) \/ b.angled) /\ ~b.belowZero)) )
            => unit.output = unit.input.body

\* a body whose closing tag takes the depth below zero has come back as it was
C17_Witness ==
    \E b \in BodyTexts, m \in Margins, c \in ContentTypes :
      /\ Formats(b, m, c)
      /\ b.belowZero
      /\ NamesXml(c)
      /\ m # << >>
      /\ unit.output = unit.input.body

\* C18: formatting what formatResponseBody returned, with the same content
\* type, returns it unchanged.
C18_FormatIdempotent ==
    (unit.fn = "formatResponseBody again" /\ unit.done) => unit.output = unit.input.body

\* the result of formatting some JSON and some XML body has been formatted again
C18_Witness ==
    /\ unit.fn = "formatResponseBody again"
    /\ unit.done
    /\ Includes(unit.output, <<"\n">>)
    /\ unit.output = unit.input.body

\* the text of the body a request carries
BodyText(body) == IF body.t = "str" THEN body.v ELSE JsonStringify(body)

\* C19: the url is the last word of the command buildCurlCommand returns, as
\* the shell splits it: the last argument the tool is given is exactly the
\* url of the request.
C19_UrlIsLastArgument ==
    unit.fn = "exec"
    => /\ unit.output.ok
       /\ unit.output.words # << >>
       /\ unit.output.words[Len(unit.output.words)] = unit.input.config.url.v

\* C20: for a request with a non-empty body, the shell hands the tool the
\* text of the body (its JSON serialization for a structured value) as the
\* one value of -d.
C20_BodyIsValueOfData ==
    (unit.fn = "exec" /\ Truthy(unit.input.config.body))
    => /\ unit.output.ok
       /\ \E k \in 1..(Len(unit.output.words) - 1) :
            /\ unit.output.words[k] = <<"-", "d">>
            /\ unit.output.words[k + 1] = BodyText(unit.input.config.body)
            /\ \A j \in 1..Len(unit.output.words) :
                 unit.output.words[j] = <<"-", "d">> => j = k

\* C21: for a structured request without a url member, parseHttpRequest
\* returns null, whatever the method and body members hold.
C21_NoUrlMemberIsNull ==
    \A m \in Margins, method \in MethodValues, body \in BodyValues :
      (Parsed /\ unit.input = m \o JsonRequest(Undefined, method, body) \o m)
      => unit.output.null

\* parseCurlCommand has returned for a command with a url of its own
ParsedCommand == unit.fn = "parseCurlCommand" /\ unit.done

\* the arguments of this kind in the command parseCurlCommand was given
ArgumentsOf(kind) == {k \in 1..Len(unit.input) : unit.input[k].kind = kind}

\* C22: for a command with a url, a --data-raw or --data-binary flag and a
\* -d or --data flag, parseCurlCommand returns the value of the --data-raw or
\* --data-binary flag as the body, whether the values are quoted or not.
C22_DataRawWins ==
    ( /\ ParsedCommand
      /\ ArgumentsOf("url") # {}
      /\ ArgumentsOf("raw") # {}
      /\ ArgumentsOf("data") # {} )
    => \A k \in ArgumentsOf("raw") : unit.output.body = Str(unit.input[k].value)

\* C28: for a command with a url argument of its own, parseCurlCommand returns
\* that url, wherever the -H, --header, -d and --data flags stand and whatever
\* their values hold.
C28_UrlIsTheUrlArgument ==
    ParsedCommand
    => \A k \in ArgumentsOf("url") :
         ~unit.output.null /\ unit.output.url = Str(unit.input[k].value)

\* C30: for a command with a url and one body flag whose value is quoted,
\* parseCurlCommand returns the text between the quotes as the body, the
\* empty text for '' and "".
C30_QuotedBodyWithoutQuotes ==
    ( /\ ParsedCommand
      /\ ArgumentsOf("url") # {}
      /\ Cardinality(ArgumentsOf("raw") \cup ArgumentsOf("data")) = 1 )
    => \A k \in ArgumentsOf("raw") \cup ArgumentsOf("data") :
         unit.input[k].quoted => unit.output.body = Str(unit.input[k].value)

\* the status lines of the samples that carry a phrase
PhrasedStatusLines ==
    {st \in StatusLineSamples : StatusPattern(st, 1)[1] \/ StatusPattern(st, 3)[1]}

\* the bodies of the samples that hold no marker
MarkerFreeBodies == {b \in BodySamples : MarkerFrom(b, 1) = 0}

\* C23: parseCurlResponse returns a statusText other than "Unknown" whenever
\* the output holds a status line with a phrase, and whenever the status code
\* it returns is in the table of getStatusText.
C23_StatusTextKnown ==
    /\ \A status \in PhrasedStatusLines, header \in HeaderSamples, eol \in EolSamples,
          body \in MarkerFreeBodies, marker \in MarkerSamples :
         ( /\ response.parsed # NotParsed
           /\ response.raw.stderr = << >>
           /\ response.raw.stdout = Assemble(status, header, eol, body, marker) )
         => response.parsed.statusText # S_Unknown
    /\ ( /\ response.parsed # NotParsed
         /\ getStatusText(response.parsed.statusCode) # S_Unknown )
       => response.parsed.statusText # S_Unknown

\* C25: for an output with an interim block before the status line, the
\* header lines and the body of the final response, parseCurlResponse returns
\* the headers and the body of the final response.
C25_FinalResponseReturned ==
    \A interim \in InterimSamples, status \in PlainStatusLines, header \in HeaderSamples,
       eol \in EolSamples, body \in MarkerFreeBodies, marker \in MarkerSamples :
      ( /\ response.parsed # NotParsed
        /\ response.raw.stderr = << >>
        /\ response.raw.stdout = AssembleAfter(interim, status, header, eol, body, marker) )
      => /\ response.parsed.headers = HeadersOfLine(header)
         /\ response.parsed.body = Trim(body)

\* C26: for an output without a blank line between headers and body (a status
\* line alone, or a status line and header lines, the marker and the white
\* space around it removed), parseCurlResponse returns a body that does not
\* start with HTTP/ and headers none of whose names starts with HTTP/.
C26_StatusLineSkipped ==
    \A status \in PlainStatusLines, header \in HeaderSamples, eol \in EolSamples,
       marker \in MarkerSamples :
      ( /\ response.parsed # NotParsed
        /\ response.raw.stderr = << >>
        /\ response.raw.stdout = Assemble(status, header, eol, << >>, marker) )
      => /\ ~StartsWith(response.parsed.body, S_HTTP)
         /\ \A k \in 1..Len(response.parsed.headers) :
              ~StartsWith(response.parsed.headers[k][1], S_HTTP)

\* the lines of the text formatXML returned
XmlLines == SplitLf(unit.output)

\* the blanks a line starts with, and the line without them
IndentOf(line) == FirstNotIn(line, {" "}, 1) - 1

Unindented(line) == From(line, IndentOf(line) + 1)

\* the name of the closing tag a line starts with, << >> when it starts with
\* something else
ClosedBy(line) ==
    IF StartsWith(Unindented(line), <<"<", "/">>)
    THEN Sub(Unindented(line), 3, IndexOf(Unindented(line), <<">">>) - 1)
    ELSE << >>

\* C24: in the text formatXML returns for a body of properly nested tags,
\* every closing tag that starts a line has the indentation of the line that
\* starts with its opening tag: the depth counts the opening tags not yet
\* closed, and self-closing tags leave it alone.
C24_ClosingTagAtDepthOfOpening ==
    \A b \in BodyTexts, m \in Margins, c \in ContentTypes :
      (Formats(b, m, c) /\ b.angled /\ ~b.belowZero)
      => \A i \in 1..Len(XmlLines) :
           ClosedBy(XmlLines[i]) # << >>
           => \E j \in 1..(i - 1) :
                /\ StartsWith(Unindented(XmlLines[j]),
                              <<"<">> \o ClosedBy(XmlLines[i]) \o <<">">>)
                /\ IndentOf(XmlLines[j]) = IndentOf(XmlLines[i])

\* C27: the sections of one request file whose titles differ are given
\* different response paths by executeHttpRequestFromFile.
C27_TitlesGiveDifferentPaths ==
    (unit.fn = "responsePath" /\ unit.done)
    => \A i, j \in 1..Len(unit.output) :
         unit.output[i].title # unit.output[j].title
         => unit.output[i].responsePath # unit.output[j].responsePath

\* both executions have succeeded with the save-to-file flag set and the
\* response path path, neither having returned before the other started
BothSucceeded(path) ==
    \A e \in Procs : /\ pc[e] = "done"
                     /\ Has(log[e], "succeeded")
                     /\ loc[e].saveFile
                     /\ loc[e].responsePath = path

\* C29: when two concurrent executions with the same response path have both
\* succeeded, the duration stored in executionTimes for the path and the text
\* left in the response file are those of one and the same execution.
C29_DurationAndTextOfOneExecution ==
    \A path \in DOMAIN files :
      BothSucceeded(path)
      => \E e \in Procs : /\ files[path] = loc[e].responseText
                          /\ getExecutionTime(FileUri(path)) = loc[e].executionTimeSeconds

====
